---- MODULE Spec2Model ----
(***************************************************************************)
(* TTY Slide (version 1.1.2): the interactive control loop.                *)
(*                                                                         *)
(* The program is single-threaded and cooperative: the main loop           *)
(* (TTYSlide.run), the keyboard read loop (KeyboardHandler.startListening) *)
(* and the signal listener interleave only at `await` points.  One action  *)
(* of this model is one run of one task from the await it is suspended at  *)
(* to the next await it reaches; `pc` names the await the main loop is     *)
(* suspended at.                                                           *)
(*                                                                         *)
(* The straight-line pieces of run() are operators from a state record to  *)
(* a state record, composed in program order; an action commits the record *)
(* that results.  `ev` is the list of effects (terminal writes, calls to   *)
(* collaborators, waits begun) of the latest step that had any; `phases`,  *)
(* `ticks` and `held` are history of the current iteration.  None of them  *)
(* is read by the program part.  A local variable holds its initial value  *)
(* while its function is not running.                                      *)
(***************************************************************************)
EXTENDS Integers, Sequences, FiniteSets, TLC

\* ----------------------------------------------------------------- bounds
\* the run is started with --interval=MaxInterval
MaxInterval == 2
\* the largest Config.maxRetries the retry loop is run with
MaxRetries == 7
\* the largest byte value a chunk read from stdin is made of
MaxByte == 255
\* the largest terminal: Deno.consoleSize() up to MaxColumns x MaxRows
MaxColumns == 200
MaxRows == 50
\* the clock runs from 0 to MaxNow, one tick per saveImage call
MaxNow == 4

\* ------------------------------------------------------ program constants
DefaultMaxRetries == 3
UpdateInterval == 100
SleepChunk == 1000
ErrorWaitMs == 5000
RenderFailWaitMs == 3000
BackoffBaseMs == 1000
BackoffCapMs == 10000

\* A descriptor (and the bytes downloaded for it) is known by its identity.
\* The program holds at most two at a time, the slide kept for the s key and
\* the one being loaded, so two identities tell them apart.
Null == 0
\* rows kept free for the controls header and the progress bar
reservedLines == 3
\* the spinner's frames.length, and the handle setInterval returns
FrameCount == 10
TimerHandle == 1
Ids == {1, 2}

VARIABLES
  config,              \* Config, fixed by ConfigManager.parseArgs
  apiKey,              \* PexelsFetcher.API_KEY is set (fixed at load)
  pc,                  \* the await the main loop is suspended at
  isRunning, isPaused, skipRequested, saveRequested,   \* TTYSlide fields
  currentSlideImage, currentImageBuffer,               \* TTYSlide fields
  isListening,         \* KeyboardHandler.isListening
  reading,             \* the read loop of startListening is pending on stdin
  rawMode,             \* the terminal is in raw mode
  spinnerRunning,      \* LoadingAnimation.isRunning (and its timer is live)
  spinnerMsg,          \* the message captured by the live spinner timer
  fetcher,             \* run(): the fetcher resolved for this iteration
  attempt,             \* fetchRandomImage: the retry loop's counter
  delays,              \* history: backoff waits begun by the current fetch
  delay,               \* fetchRandomImage: the backoff being waited
  slideImage,          \* run(): const slideImage
  imageBuffer,         \* run(): const imageBuffer
  remaining,           \* sleep(): let remaining
  currentUpdate,       \* handleProgressBarWithControls: let currentUpdate
  ticks,               \* history: un-paused 100 ms waits of the current Waiting
  held,                \* history: the current Waiting took a paused wait
  saves,               \* history: saveImage calls of the current iteration
  clears,              \* history: console.clear calls of the current iteration
  phases,              \* history: phases entered in the current iteration
  ev,                  \* history: effects of the latest step that had any
  readBuffer,          \* startListening: buffer.slice(0, nread)
  readKey,             \* startListening: const key
  imageShape,          \* displayImage: the shape of the image in buffer
  terminalSize,        \* displayImage: const terminalSize, <<columns, rows>>
  args,                \* displayImage: the sizing argument pushed on args
  storage,             \* the files under outputDir, as [path, bytes] records
  now,                 \* Date.now()
  savePath,            \* history: the savePath of the latest saveImage call
  intervalId,          \* LoadingAnimation.intervalId
  timers,              \* the number of live setInterval timers
  currentFrame,        \* LoadingAnimation.currentFrame
  screen               \* which of spinner, image and bar the terminal shows

vars == <<config, apiKey, pc, isRunning, isPaused, skipRequested, saveRequested,
          currentSlideImage, currentImageBuffer, isListening, reading, rawMode,
          spinnerRunning, spinnerMsg, fetcher, attempt, delays, delay, slideImage,
          imageBuffer, remaining, currentUpdate, ticks, held, saves, clears,
          phases, ev, readBuffer, readKey, imageShape, terminalSize, args,
          storage, now, savePath, intervalId, timers, currentFrame, screen>>

\* ---------------------------------------------------------------- helpers
Min(a, b) == IF a < b THEN a ELSE b

RECURSIVE Pow2(_)
Pow2(n) == IF n <= 0 THEN 1 ELSE 2 * Pow2(n - 1)

E(op, id) == [op |-> op, id |-> id]
SaveOps == {"save.default", "save.explicit"}
\* an effect of the step, and what it does to the screen: console.clear()
\* empties it, the spinner's timer draws its line and stop() erases that
\* line, jp2a prints the image, the bar is written under it
Emit(s, op, id) ==
  [s EXCEPT !.ev = Append(@, E(op, id)),
            !.saves = IF op \in SaveOps THEN @ + 1 ELSE @,
            !.clears = IF op = "clear" THEN @ + 1 ELSE @,
            !.screen = CASE op = "clear" -> {}
                         [] op = "spinner.start" -> @ \cup {"spinner"}
                         [] op = "spinner.stop" -> @ \ {"spinner"}
                         [] op = "render.return" -> @ \cup {"image"}
                         [] op = "bar.draw" -> @ \cup {"bar"}
                         [] OTHER -> @]
\* history: the main loop enters a phase
Enter(s, phase) == Emit([s EXCEPT !.phases = Append(@, phase)], phase, 0)

\* the state as a record, with the effect list emptied for the step to come
Cur ==
  [pc |-> pc, isRunning |-> isRunning, isPaused |-> isPaused,
   skipRequested |-> skipRequested, saveRequested |-> saveRequested,
   currentSlideImage |-> currentSlideImage,
   currentImageBuffer |-> currentImageBuffer,
   isListening |-> isListening, reading |-> reading, rawMode |-> rawMode,
   spinnerRunning |-> spinnerRunning, spinnerMsg |-> spinnerMsg,
   fetcher |-> fetcher, attempt |-> attempt, delays |-> delays,
   delay |-> delay,
   slideImage |-> slideImage, imageBuffer |-> imageBuffer,
   remaining |-> remaining, currentUpdate |-> currentUpdate,
   ticks |-> ticks, held |-> held, saves |-> saves, clears |-> clears,
   phases |-> phases, intervalId |-> intervalId, timers |-> timers,
   currentFrame |-> currentFrame, screen |-> screen, ev |-> <<>>]

Commit(s) ==
  /\ pc' = s.pc
  /\ isRunning' = s.isRunning
  /\ isPaused' = s.isPaused
  /\ skipRequested' = s.skipRequested
  /\ saveRequested' = s.saveRequested
  /\ currentSlideImage' = s.currentSlideImage
  /\ currentImageBuffer' = s.currentImageBuffer
  /\ isListening' = s.isListening
  /\ reading' = s.reading
  /\ rawMode' = s.rawMode
  /\ spinnerRunning' = s.spinnerRunning
  /\ spinnerMsg' = s.spinnerMsg
  /\ fetcher' = s.fetcher
  /\ attempt' = s.attempt
  /\ delays' = s.delays
  /\ delay' = s.delay
  /\ slideImage' = s.slideImage
  /\ imageBuffer' = s.imageBuffer
  /\ remaining' = s.remaining
  /\ currentUpdate' = s.currentUpdate
  /\ ticks' = s.ticks
  /\ held' = s.held
  /\ saves' = s.saves
  /\ clears' = s.clears
  /\ phases' = s.phases
  /\ intervalId' = s.intervalId
  /\ timers' = s.timers
  /\ currentFrame' = s.currentFrame
  /\ screen' = s.screen
  /\ ev' = IF s.ev = <<>> THEN ev ELSE s.ev
  /\ UNCHANGED <<config, apiKey, readBuffer, readKey, imageShape,
                 terminalSize, args, storage, now, savePath>>

\* ------------------------------------------------- ConfigManager.parseArgs
Waifu == <<"w", "a", "i", "f", "u">>
Pexels == <<"p", "e", "x", "e", "l", "s">>
Random == <<"r", "a", "n", "d", "o", "m">>
\* the --source= arguments tried: a name, random, a path, an unknown name
SourceArgs == {Waifu, Random, <<".", "/", "p">>, <<"f", "o", "o">>}

parseArgs(source, interval, noSaveFlag, captionFlag) ==
  [source |-> source,
   intervalSeconds |-> interval,
   caption |-> captionFlag,
   maxRetries |-> DefaultMaxRetries,
   noSave |-> noSaveFlag \/ (source # Waifu /\ source # Pexels /\ source # Random)]

\* --------------------------------------------------------- FetcherRegistry
NoFetcher == "none"

isDirectoryPath(source) ==
  \/ \E i \in DOMAIN source : source[i] \in {"/", "\\"}
  \/ (Len(source) > 0 /\ source[1] \in {".", "~", "/"})

\* variant of getFetcher: an unknown name falls back to the first fetcher
getFetcher_Fallback(source) ==
  IF source = Pexels THEN "pexels"
  ELSE IF isDirectoryPath(source) THEN "directory"
  ELSE "waifu"

\* variant of getFetcher: a name that is not registered is taken as a path
getFetcher_AnyPath(source) ==
  IF source = Waifu THEN "waifu"
  ELSE IF source = Pexels THEN "pexels"
  ELSE "directory"

getFetcher(source) ==
  IF source = Waifu THEN "waifu"
  ELSE IF source = Pexels THEN "pexels"
  ELSE IF isDirectoryPath(source) THEN "directory"
  ELSE NoFetcher

\* r is Math.floor(Math.random() * 2)
getRandomFetcher(r) == <<"waifu", "pexels">>[r + 1]

\* -------------------------------------------------------- LoadingAnimation
FetchingMsg == "Fetching image..."
DownloadingMsg == "Downloading image..."
ConvertingMsg == "Converting to ASCII art..."

\* variant of LoadingAnimationStart: no early return when already running
LoadingAnimationStart_Restarts(s, message) ==
  Emit([s EXCEPT !.spinnerRunning = TRUE, !.currentFrame = 0,
                 !.spinnerMsg = message, !.intervalId = TimerHandle,
                 !.timers = @ + 1],
       "spinner.start", 0)

\* start(message): nothing if running; else frame 0 and a new interval timer
\* whose callback shows message
LoadingAnimationStart(s, message) ==
  IF s.spinnerRunning THEN s
  ELSE Emit([s EXCEPT !.spinnerRunning = TRUE, !.currentFrame = 0,
                      !.spinnerMsg = message, !.intervalId = TimerHandle,
                      !.timers = @ + 1],
            "spinner.start", 0)

\* stop(): nothing if not running; else the timer is cleared, the line erased
LoadingAnimationStop(s) ==
  IF ~s.spinnerRunning THEN s
  ELSE Emit([s EXCEPT !.spinnerRunning = FALSE,
                      !.timers = IF s.intervalId # Null THEN @ - 1 ELSE @,
                      !.intervalId = Null],
            "spinner.stop", 0)

\* --------------------------------------------------------- KeyboardHandler
destroy(s) == [s EXCEPT !.isListening = FALSE, !.rawMode = FALSE]

\* variant of cleanup: keyboardHandler.destroy() is left out
cleanup_NoDestroy(s) ==
  Emit(LoadingAnimationStop([s EXCEPT !.isRunning = FALSE]), "clear", 0)

\* ---------------------------------------------------------------- TTYSlide
cleanup(s) ==
  Emit(destroy(LoadingAnimationStop([s EXCEPT !.isRunning = FALSE])),
       "clear", 0)

\* Deno.exit: the process is gone with its stack, no task runs again
exit(s) ==
  [s EXCEPT !.pc = "exited",
            !.fetcher = NoFetcher, !.attempt = 0, !.delays = 0, !.delay = 0,
            !.slideImage = Null, !.imageBuffer = Null, !.remaining = 0,
            !.currentUpdate = 0, !.ticks = 0, !.held = FALSE,
            !.saves = 0, !.clears = 0,
            !.phases = IF Len(@) > 0 /\ @[Len(@)] = "Stopped" THEN @
                       ELSE Append(@, "Stopped")]

\* ------------------------------------------------------ TTYSlide.run, sleep
\* The pieces below are the straight-line stretches of run() between awaits.
\* r is the value Math.random() gives getRandomFetcher if this stretch
\* reaches it.
RECURSIVE LoopTop(_, _)
RECURSIVE AfterFetch(_, _, _)

\* sleep(ms) up to its first await; with nothing to wait it returns at once
\* and every caller goes on to the top of the loop
sleep(s, ms, r) ==
  IF ms > 0 /\ s.isRunning
  THEN Emit([Enter(s, "ErrorRecovery") EXCEPT !.pc = "sleep", !.remaining = ms],
            "sleep", ms)
  ELSE LoopTop(s, r)

\* fetchRandomImage up to its first await: attempt 1 is in flight; without
\* an API key the Pexels fetcher returns null before any attempt
fetchRandomImage(s, r) ==
  IF s.fetcher = "pexels" /\ ~apiKey
  THEN AfterFetch(Emit(Emit(s, "fetch.call", 0), "fetch.nokey", 0), Null, r)
  ELSE Emit([s EXCEPT !.pc = "fetch", !.attempt = 1], "fetch.call", 0)

\* while (this.isRunning) { reset flags; start spinner; resolve fetcher; ... }
LoopTop(s, r) ==
  IF ~s.isRunning
  THEN [cleanup(s) EXCEPT !.pc = "returned", !.phases = Append(@, "Stopped")]
  ELSE
    LET s0 == Emit([s EXCEPT !.slideImage = Null, !.imageBuffer = Null,
                             !.fetcher = NoFetcher, !.currentUpdate = 0,
                             !.ticks = 0, !.held = FALSE, !.saves = 0,
                             !.clears = 0, !.phases = <<>>],
                   "iteration", 0)
        s1 == [Enter(s0, "Fetching") EXCEPT !.skipRequested = FALSE,
                                            !.saveRequested = FALSE]
        s2 == LoadingAnimationStart(s1, FetchingMsg)
        f == IF config.source = Random
             THEN getRandomFetcher(r)
             ELSE getFetcher(config.source)
    IN IF f = NoFetcher
       THEN sleep(Emit(LoadingAnimationStop(s2), "log.error", 0), ErrorWaitMs, r)
       ELSE fetchRandomImage([s2 EXCEPT !.fetcher = f], r)

\* variant of CatchAll: the error ends run()
CatchAll_Fatal(s, r) ==
  [Emit(LoadingAnimationStop(s), "log.error", 0)
     EXCEPT !.pc = "returned", !.phases = Append(@, "Stopped")]

\* variant of CatchAll: the spinner is left running over the wait
CatchAll_SpinnerOn(s, r) ==
  sleep(Emit(s, "log.error", 0), ErrorWaitMs, r)

\* catch (error) of the loop body: stop the spinner, log, sleep(5000)
CatchAll(s, r) ==
  sleep(Emit(LoadingAnimationStop(s), "log.error", 0), ErrorWaitMs, r)

\* variant of EndIteration: the pause ends with the slide
EndIteration_Unpauses(s, r) ==
  LoopTop(IF s.isRunning /\ ~s.isPaused THEN Emit(s, "clear", 0)
          ELSE [s EXCEPT !.isPaused = FALSE], r)

\* the end of the loop body: clear the screen unless paused, then loop
EndIteration(s, r) ==
  LoopTop(IF s.isRunning /\ ~s.isPaused THEN Emit(s, "clear", 0) ELSE s, r)

\* variant of AfterWaiting: the requested save is dropped under --no-save
AfterWaiting_HonoursNoSave(s, r) ==
  IF s.saveRequested /\ ~config.noSave
     /\ s.currentSlideImage # Null /\ s.currentImageBuffer # Null
  THEN Emit([s EXCEPT !.pc = "save2"], "save.explicit", s.currentSlideImage)
  ELSE EndIteration(s, r)

\* variant of AfterWaiting: the request is consumed when its save starts
AfterWaiting_ConsumesRequest(s, r) ==
  IF s.saveRequested /\ s.currentSlideImage # Null /\ s.currentImageBuffer # Null
  THEN Emit([s EXCEPT !.pc = "save2", !.saveRequested = FALSE],
            "save.explicit", s.currentSlideImage)
  ELSE EndIteration(s, r)

\* after handleProgressBarWithControls: the save requested with the s key
AfterWaiting(s, r) ==
  IF s.saveRequested /\ s.currentSlideImage # Null /\ s.currentImageBuffer # Null
  THEN Emit([s EXCEPT !.pc = "save2"], "save.explicit", s.currentSlideImage)
  ELSE EndIteration(s, r)

totalUpdates == (config.intervalSeconds * 1000) \div UpdateInterval

\* barWidth = Math.min(60, Math.floor(terminalWidth * 0.6))
barWidth(terminalWidth) == Min(60, (terminalWidth * 6) \div 10)

\* filledWidth = Math.floor((currentUpdate / totalUpdates) * (barWidth - 4))
filledWidth(update, terminalWidth) ==
  (update * (barWidth(terminalWidth) - 4)) \div totalUpdates

\* variant of BarLoop: the loop runs one update past totalUpdates
BarLoop_OneMore(s, r) ==
  IF s.currentUpdate <= totalUpdates + 1 /\ s.isRunning /\ ~s.skipRequested
  THEN Emit([s EXCEPT !.pc = "barWrite"], "bar.draw", s.currentUpdate)
  ELSE AfterWaiting(Emit(s, "wait.end", 0), r)

\* the head of the bar's while loop: draw and await the write, or leave
BarLoop(s, r) ==
  IF s.currentUpdate <= totalUpdates /\ s.isRunning /\ ~s.skipRequested
  THEN Emit([s EXCEPT !.pc = "barWrite"], "bar.draw", s.currentUpdate)
  ELSE AfterWaiting(Emit(s, "wait.end", 0), r)

\* if (this.skipRequested || !this.isRunning) break;
BreakCheck(s, r) ==
  IF s.skipRequested \/ ~s.isRunning
  THEN AfterWaiting(Emit(s, "wait.end", 0), r)
  ELSE BarLoop(s, r)

\* variant of PauseLoop: the counter advances on a paused wait too
PauseLoop_Advances(s, r) ==
  IF s.isPaused /\ s.isRunning /\ ~s.skipRequested
  THEN Emit([s EXCEPT !.pc = "pauseTick", !.held = TRUE,
                      !.currentUpdate = Min(@ + 1, totalUpdates)],
            "tick.paused", 0)
  ELSE BreakCheck(s, r)

\* variant of PauseLoop: the paused loop does not look at skipRequested
PauseLoop_IgnoresSkip(s, r) ==
  IF s.isPaused /\ s.isRunning
  THEN Emit([s EXCEPT !.pc = "pauseTick", !.held = TRUE], "tick.paused", 0)
  ELSE BreakCheck(s, r)

\* while (this.isPaused && this.isRunning && !this.skipRequested) await tick
PauseLoop(s, r) ==
  IF s.isPaused /\ s.isRunning /\ ~s.skipRequested
  THEN Emit([s EXCEPT !.pc = "pauseTick", !.held = TRUE], "tick.paused", 0)
  ELSE BreakCheck(s, r)

\* variant of AfterBarWrite: the bar advances whether paused or not
AfterBarWrite_IgnoresPause(s, r) ==
  LET s1 == [s EXCEPT !.currentUpdate = @ + 1]
  IN IF s1.currentUpdate <= totalUpdates
     THEN Emit([s1 EXCEPT !.pc = "barTick", !.ticks = @ + 1], "tick", 0)
     ELSE BreakCheck(s1, r)

\* variant of AfterBarWrite: the wait is taken only below totalUpdates
AfterBarWrite_StrictBound(s, r) ==
  IF s.isPaused
  THEN PauseLoop(s, r)
  ELSE LET s1 == [s EXCEPT !.currentUpdate = @ + 1]
       IN IF s1.currentUpdate < totalUpdates
          THEN Emit([s1 EXCEPT !.pc = "barTick", !.ticks = @ + 1], "tick", 0)
          ELSE BreakCheck(s1, r)

\* the bar's body after the write: hold while paused, else advance and wait
AfterBarWrite(s, r) ==
  IF s.isPaused
  THEN PauseLoop(s, r)
  ELSE LET s1 == [s EXCEPT !.currentUpdate = @ + 1]
       IN IF s1.currentUpdate <= totalUpdates
          THEN Emit([s1 EXCEPT !.pc = "barTick", !.ticks = @ + 1], "tick", 0)
          ELSE BreakCheck(s1, r)

\* if (this.isRunning) await this.handleProgressBarWithControls();
EnterWaiting(s, r) ==
  IF s.isRunning
  THEN BarLoop([Enter(s, "Waiting") EXCEPT !.currentUpdate = 0, !.ticks = 0,
                                           !.held = FALSE], r)
  ELSE AfterWaiting(s, r)

\* variant of AfterDisplay: the default save is called twice
AfterDisplay_SavesTwice(s, r) ==
  LET s1 == Enter(Emit(s, "image", s.slideImage), "Displaying")
      s2 == IF config.caption THEN Emit(s1, "caption", s1.slideImage) ELSE s1
  IN IF ~config.noSave
     THEN Emit(Emit([s2 EXCEPT !.pc = "save1"], "save.default", s2.slideImage),
               "save.default", s2.slideImage)
     ELSE EnterWaiting(s2, r)

\* after displayImage returned: caption, default save
AfterDisplay(s, r) ==
  LET s1 == Enter(Emit(s, "image", s.slideImage), "Displaying")
      s2 == IF config.caption THEN Emit(s1, "caption", s1.slideImage) ELSE s1
  IN IF ~config.noSave
     THEN Emit([s2 EXCEPT !.pc = "save1"], "save.default", s2.slideImage)
     ELSE EnterWaiting(s2, r)

\* variant of AfterDownload: the skip check after the download is left out
AfterDownload_NoSkipCheck(s, r) ==
  LET s1 == Enter(LoadingAnimationStart(s, ConvertingMsg), "Converting")
      s2 == [s1 EXCEPT !.currentSlideImage = s.slideImage,
                       !.currentImageBuffer = s.imageBuffer]
      s3 == Emit(LoadingAnimationStop(s2), "clear", 0)
  IN Emit([s3 EXCEPT !.pc = "display"], "render.call", s3.imageBuffer)

\* variant of AfterDownload: a skip still runs the save that was requested
AfterDownload_SavesOnSkip(s, r) ==
  IF s.skipRequested
  THEN IF s.saveRequested /\ s.currentSlideImage # Null
       THEN Emit([LoadingAnimationStop(s) EXCEPT !.pc = "save2"],
                 "save.explicit", s.currentSlideImage)
       ELSE LoopTop(LoadingAnimationStop(s), r)
  ELSE
    LET s1 == Enter(LoadingAnimationStart(s, ConvertingMsg), "Converting")
        s2 == [s1 EXCEPT !.currentSlideImage = s.slideImage,
                         !.currentImageBuffer = s.imageBuffer]
        s3 == Emit(LoadingAnimationStop(s2), "clear", 0)
    IN Emit([s3 EXCEPT !.pc = "display"], "render.call", s3.imageBuffer)

\* variant of AfterDownload: the first slide stays the current one
AfterDownload_KeepsFirst(s, r) ==
  IF s.skipRequested
  THEN LoopTop(LoadingAnimationStop(s), r)
  ELSE
    LET s1 == Enter(LoadingAnimationStart(s, ConvertingMsg), "Converting")
        s2 == IF s.currentSlideImage = Null
              THEN [s1 EXCEPT !.currentSlideImage = s.slideImage,
                              !.currentImageBuffer = s.imageBuffer]
              ELSE s1
        s3 == Emit(LoadingAnimationStop(s2), "clear", 0)
    IN Emit([s3 EXCEPT !.pc = "display"], "render.call", s3.imageBuffer)

\* after downloadImage returned the bytes
AfterDownload(s, r) ==
  IF s.skipRequested
  THEN LoopTop(LoadingAnimationStop(s), r)
  ELSE
    LET s1 == Enter(LoadingAnimationStart(s, ConvertingMsg), "Converting")
        s2 == [s1 EXCEPT !.currentSlideImage = s.slideImage,
                         !.currentImageBuffer = s.imageBuffer]
        s3 == Emit(LoadingAnimationStop(s2), "clear", 0)
    IN Emit([s3 EXCEPT !.pc = "display"], "render.call", s3.imageBuffer)

\* variant of AfterFetch: the null check is left out
AfterFetch_NoNullCheck(s, img, r) ==
  LET s0 == [s EXCEPT !.slideImage = img, !.attempt = 0, !.delays = 0,
                     !.delay = 0]
  IN IF s0.skipRequested
     THEN LoopTop(LoadingAnimationStop(s0), r)
     ELSE Emit([Enter(LoadingAnimationStart(s0, DownloadingMsg), "Downloading")
                  EXCEPT !.pc = "download"],
               "download.call", img)

\* variant of AfterFetch: the skip check after the fetch is left out
AfterFetch_NoSkipCheck(s, img, r) ==
  LET s0 == [s EXCEPT !.slideImage = img, !.attempt = 0, !.delays = 0,
                     !.delay = 0]
  IN IF img = Null
     THEN sleep(Emit(LoadingAnimationStop(s0), "log.warn", 0), ErrorWaitMs, r)
     ELSE Emit([Enter(LoadingAnimationStart(s0, DownloadingMsg), "Downloading")
                  EXCEPT !.pc = "download"],
               "download.call", img)

\* variant of AfterFetch: a null result waits three seconds, spinner left on
AfterFetch_NullShortWait(s, img, r) ==
  LET s0 == [s EXCEPT !.slideImage = img, !.attempt = 0, !.delays = 0,
                     !.delay = 0]
  IN IF img = Null
     THEN sleep(Emit(s0, "log.warn", 0), RenderFailWaitMs, r)
     ELSE IF s0.skipRequested
     THEN LoopTop(LoadingAnimationStop(s0), r)
     ELSE Emit([Enter(LoadingAnimationStart(s0, DownloadingMsg), "Downloading")
                  EXCEPT !.pc = "download"],
               "download.call", img)

\* after fetchRandomImage returned img (a descriptor or null)
AfterFetch(s, img, r) ==
  LET s0 == [s EXCEPT !.slideImage = img, !.attempt = 0, !.delays = 0,
                     !.delay = 0]
  IN IF img = Null
     THEN sleep(Emit(LoadingAnimationStop(s0), "log.warn", 0), ErrorWaitMs, r)
     ELSE IF s0.skipRequested
     THEN LoopTop(LoadingAnimationStop(s0), r)
     ELSE Emit([Enter(LoadingAnimationStart(s0, DownloadingMsg), "Downloading")
                  EXCEPT !.pc = "download"],
               "download.call", img)

\* ------------------------------------------ KeyboardHandler.parseKeyPress
NoKey == "<none>"

\* String.fromCharCode for the bytes 32..126 (byte 96, the grave accent, is
\* written <96>)
PrintableChars ==
  <<
    " ", "!", "\"", "#", "$", "%", "&", "'", "(", ")", "*", "+",
    ",", "-", ".", "/", "0", "1", "2", "3", "4", "5", "6", "7",
    "8", "9", ":", ";", "<", "=", ">", "?", "@", "A", "B", "C",
    "D", "E", "F", "G", "H", "I", "J", "K", "L", "M", "N", "O",
    "P", "Q", "R", "S", "T", "U", "V", "W", "X", "Y", "Z", "[",
    "\\", "]", "^", "_", "<96>", "a", "b", "c", "d", "e", "f", "g",
    "h", "i", "j", "k", "l", "m", "n", "o", "p", "q", "r", "s",
    "t", "u", "v", "w", "x", "y", "z", "{", "|", "}", "~"
  >>

fromCharCode(b) == PrintableChars[b - 31]

\* variant of toLowerCase: the character is returned as typed
toLowerCase_AsTyped(b) == b

\* toLowerCase on one character code
toLowerCase(b) == IF b >= 65 /\ b <= 90 THEN b + 32 ELSE b

parseKeyPress(buffer) ==
  IF Len(buffer) = 0 THEN NoKey
  ELSE IF Len(buffer) = 1
  THEN CASE buffer[1] = 27 -> "escape"
         [] buffer[1] = 32 -> "space"
         [] buffer[1] = 13 -> "enter"
         [] buffer[1] = 127 -> "backspace"
         [] buffer[1] = 3 -> "ctrl+c"
         [] OTHER -> IF buffer[1] >= 32 /\ buffer[1] <= 126
                     THEN fromCharCode(toLowerCase(buffer[1]))
                     ELSE NoKey
  ELSE IF Len(buffer) >= 3 /\ buffer[1] = 27 /\ buffer[2] = 91
  THEN CASE buffer[3] = 65 -> "arrow-up"
         [] buffer[3] = 66 -> "arrow-down"
         [] buffer[3] = 67 -> "arrow-right"
         [] buffer[3] = 68 -> "arrow-left"
         [] OTHER -> NoKey
  ELSE NoKey

\* ------------------------------------------ TTYSlide.setupKeyboardHandlers
\* the keys a handler is registered for
listeners == {"space", "n", "arrow-right", "s", "q", "ctrl+c"}

\* variant of handler: a skip also lifts the pause
handler_SkipUnpauses(s, key) ==
  CASE key = "space" -> [s EXCEPT !.isPaused = ~@]
    [] key \in {"n", "arrow-right"} ->
         [s EXCEPT !.skipRequested = TRUE, !.isPaused = FALSE]
    [] key = "s" -> [s EXCEPT !.saveRequested = TRUE]
    [] key \in {"q", "ctrl+c"} -> exit(cleanup(Emit(s, "quit", 0)))
    [] OTHER -> s

\* the handler registered for key, run to completion
handler(s, key) ==
  CASE key = "space" -> [s EXCEPT !.isPaused = ~@]
    [] key \in {"n", "arrow-right"} -> [s EXCEPT !.skipRequested = TRUE]
    [] key = "s" -> [s EXCEPT !.saveRequested = TRUE]
    [] key \in {"q", "ctrl+c"} -> exit(cleanup(Emit(s, "quit", 0)))
    [] OTHER -> s

\* one pass of the read loop's body on the bytes read
dispatch(s, buffer) ==
  LET key == parseKeyPress(buffer)
  IN IF key # NoKey /\ key \in listeners THEN handler(s, key) ELSE s

\* the byte chunks a read of stdin is given: every bound key in both cases,
\* the arrows, unbound keys, and chunks that decode to nothing
KeyChunks ==
  {<<32>>, <<110>>, <<78>>, <<115>>, <<83>>, <<113>>, <<81>>, <<3>>,
   <<27, 91, 67>>, <<27, 91, 65>>, <<27, 91, 90>>, <<120>>, <<110, 110>>}

\* ------------------------------------------------------------------- Init
\* the shape of the image held in a buffer; none while none is rendered
NoShape == "<none>"
ImageShapes == {"portrait", "landscape", "square"}

\* main(): the constructor ran (raw mode was enabled, or the attempt failed
\* and the handler stays inert), run() printed the header and awaits mkdir
Constructed ==
  /\ intervalId = Null
  /\ timers = 0
  /\ currentFrame = 0
  /\ screen = {}
  /\ storage = {}
  /\ now = 0
  /\ savePath = <<>>
  /\ imageShape = NoShape
  /\ terminalSize = <<>>
  /\ args = <<>>
  /\ readBuffer = <<>>
  /\ readKey = NoKey
  /\ isListening = rawMode
  /\ reading = rawMode
  /\ pc = "mkdir"
  /\ isRunning = TRUE
  /\ isPaused = FALSE
  /\ skipRequested = FALSE
  /\ saveRequested = FALSE
  /\ currentSlideImage = Null
  /\ currentImageBuffer = Null
  /\ spinnerRunning = FALSE
  /\ spinnerMsg = ""
  /\ fetcher = NoFetcher
  /\ attempt = 0
  /\ delays = 0
  /\ delay = 0
  /\ slideImage = Null
  /\ imageBuffer = Null
  /\ remaining = 0
  /\ currentUpdate = 0
  /\ ticks = 0
  /\ held = FALSE
  /\ saves = 0
  /\ clears = 0
  /\ phases = <<>>
  /\ ev = <<E("clear", 0)>>

Init ==
  /\ \E src \in SourceArgs, ns \in BOOLEAN, cap \in BOOLEAN :
       config = parseArgs(src, MaxInterval, ns, cap)
  /\ apiKey \in (IF config.source \in {Pexels, Random} THEN BOOLEAN ELSE {TRUE})
  /\ rawMode \in BOOLEAN
  /\ Constructed

\* the same program given a Config whose maxRetries is any of 1..MaxRetries
\* (fetchRandomImage takes the Config as its argument), the source waifu
InitRetries ==
  /\ \E m \in 1..MaxRetries :
       config = [parseArgs(Waifu, MaxInterval, FALSE, FALSE)
                   EXCEPT !.maxRetries = m]
  /\ apiKey = TRUE
  /\ rawMode = TRUE
  /\ Constructed

\* Math.floor(Math.random() * 2), drawn only when the source is "random"
RandomDraws == IF config.source = Random THEN {0, 1} ELSE {0}

\* ---------------------------------------------------- the main loop's steps
\* await Deno.mkdir(outputDir): created, or the run ends
MkdirDone ==
  /\ pc = "mkdir"
  /\ \E ok \in BOOLEAN, r \in RandomDraws :
       Commit(IF ok
              THEN LoopTop(Cur, r)
              ELSE Emit([Cur EXCEPT !.pc = "returned",
                                    !.phases = Append(@, "Stopped")],
                        "log.error", 0))

\* an attempt of fetchRandomImage ends: a descriptor, or a failure that is
\* retried after a backoff until maxRetries (the directory fetcher tries once)
\* variant of backoffDelay: the delay grows by a second per attempt
backoffDelay_Linear(a) == Min(BackoffBaseMs * a, BackoffCapMs)

backoffDelay(a) == Min(BackoffBaseMs * Pow2(a - 1), BackoffCapMs)

\* variant of AttemptFailed: the loop gives up one attempt late
AttemptFailed_OneMore(s, r) ==
  IF s.fetcher = "directory" \/ s.attempt = config.maxRetries + 1
  THEN AfterFetch(s, Null, r)
  ELSE Emit([s EXCEPT !.pc = "backoff", !.delay = backoffDelay(s.attempt),
                      !.delays = @ + 1],
            "backoff", backoffDelay(s.attempt))

\* variant of AttemptFailed: a requested skip ends the retries
AttemptFailed_HonoursSkip(s, r) ==
  IF s.fetcher = "directory" \/ s.attempt = config.maxRetries
     \/ s.skipRequested
  THEN AfterFetch(s, Null, r)
  ELSE Emit([s EXCEPT !.pc = "backoff", !.delay = backoffDelay(s.attempt),
                      !.delays = @ + 1],
            "backoff", backoffDelay(s.attempt))

AttemptFailed(s, r) ==
  IF s.fetcher = "directory" \/ s.attempt = config.maxRetries
  THEN AfterFetch(s, Null, r)
  ELSE Emit([s EXCEPT !.pc = "backoff", !.delay = backoffDelay(s.attempt),
                      !.delays = @ + 1],
            "backoff", backoffDelay(s.attempt))

FetchDone ==
  /\ pc = "fetch"
  /\ \E r \in RandomDraws :
       \/ \E img \in Ids \ {currentSlideImage} :
            Commit(AfterFetch(Emit(Emit(Cur, "fetch.return", img),
                                   "fetch.attempts", attempt), img, r))
       \/ Commit(AttemptFailed(Emit(Cur, "fetch.fail", attempt), r))

\* variant of BackoffDone: the counter moves on by two
BackoffDone_SkipsAttempt ==
  /\ pc = "backoff"
  /\ Commit(Emit([Cur EXCEPT !.pc = "fetch", !.attempt = @ + 2, !.delay = 0],
                 "fetch.retry", attempt + 2))

BackoffDone ==
  /\ pc = "backoff"
  /\ Commit(Emit([Cur EXCEPT !.pc = "fetch", !.attempt = @ + 1, !.delay = 0],
                 "fetch.retry", attempt + 1))

\* variant of SleepWake: the sleep is re-armed with the full chunk
SleepWake_Rearms ==
  /\ pc = "sleep"
  /\ \E r \in RandomDraws :
       Commit(IF remaining > 0 /\ isRunning
              THEN Emit(Cur, "sleep.more", remaining)
              ELSE LoopTop([Cur EXCEPT !.remaining = 0], r))

\* variant of SleepWake: a pending skip ends the wait at the next chunk
SleepWake_HonoursSkip ==
  /\ pc = "sleep"
  /\ \E r \in RandomDraws :
       LET s1 == [Cur EXCEPT !.remaining = @ - Min(@, SleepChunk)]
       IN Commit(IF s1.remaining > 0 /\ s1.isRunning /\ ~s1.skipRequested
                 THEN Emit(s1, "sleep.more", s1.remaining)
                 ELSE LoopTop([s1 EXCEPT !.remaining = 0], r))

\* a chunk of sleep() ends
SleepWake ==
  /\ pc = "sleep"
  /\ \E r \in RandomDraws :
       LET s1 == [Cur EXCEPT !.remaining = @ - Min(@, SleepChunk)]
       IN Commit(IF s1.remaining > 0 /\ s1.isRunning
                 THEN Emit(s1, "sleep.more", s1.remaining)
                 ELSE LoopTop([s1 EXCEPT !.remaining = 0], r))

\* downloadImage ends: the bytes, or an error thrown
DownloadDone ==
  /\ pc = "download"
  /\ \E ok \in BOOLEAN, r \in RandomDraws :
       Commit(IF ok
              THEN AfterDownload(Emit([Cur EXCEPT !.imageBuffer = slideImage],
                                      "download.return", slideImage), r)
              ELSE CatchAll(Emit(Cur, "download.fail", slideImage), r))

\* displayImage ends: drawn; jp2a failed (the error panel is up and the
\* error says "jp2a failed"); jp2a could not be run (panel, other error);
\* or the temporary file could not be written (no panel, other error)
DisplayOutcomes == {"ok", "jp2a failed", "spawn", "tmpfile"}

\* variant of AfterDisplayError: a jp2a failure is rethrown like any other
AfterDisplayError_Rethrows(s, outcome, r) ==
  LET s0 == Emit(s, outcome, 0)
      s1 == IF outcome = "tmpfile" THEN s0
            ELSE Emit(Emit(s0, "clear", 0), "error.panel", 0)
  IN CatchAll(LoadingAnimationStop(s1), r)

AfterDisplayError(s, outcome, r) ==
  LET s0 == Emit(s, outcome, 0)
      s1 == IF outcome = "tmpfile" THEN s0
            ELSE Emit(Emit(s0, "clear", 0), "error.panel", 0)
      s2 == LoadingAnimationStop(s1)
  IN IF outcome = "jp2a failed"
     THEN sleep(Emit(s2, "log.warn", 0), RenderFailWaitMs, r)
     ELSE CatchAll(s2, r)

DisplayDone ==
  /\ pc = "display"
  /\ \E outcome \in DisplayOutcomes, r \in RandomDraws :
       Commit(IF outcome = "ok"
              THEN AfterDisplay(Emit(Cur, "render.return", imageBuffer), r)
              ELSE AfterDisplayError(Emit(Cur, "render.fail", imageBuffer),
                                     outcome, r))

\* the default saveImage ends
SaveDefaultDone ==
  /\ pc = "save1"
  /\ \E ok \in BOOLEAN, r \in RandomDraws :
       Commit(IF ok
              THEN EnterWaiting(Emit(Cur, "save.return", slideImage), r)
              ELSE CatchAll(Emit(Cur, "save.fail", slideImage), r))

\* await Deno.stdout.write(bar) ends
BarWriteDone ==
  /\ pc = "barWrite"
  /\ \E r \in RandomDraws : Commit(AfterBarWrite(Cur, r))

\* the 100 ms wait after an advance ends
BarTickDone ==
  /\ pc = "barTick"
  /\ \E r \in RandomDraws : Commit(BreakCheck(Cur, r))

\* a 100 ms wait of the paused loop ends
PauseTickDone ==
  /\ pc = "pauseTick"
  /\ \E r \in RandomDraws : Commit(PauseLoop(Cur, r))

\* variant of SaveExplicitDone: the error reaches the loop's catch
SaveExplicitDone_Throws ==
  /\ pc = "save2"
  /\ \E ok \in BOOLEAN, r \in RandomDraws :
       Commit(IF ok
              THEN EndIteration(Emit(Cur, "save.return", currentSlideImage), r)
              ELSE CatchAll(Emit(Cur, "save.fail", currentSlideImage), r))

\* the saveImage of the s key ends; its error is swallowed
SaveExplicitDone ==
  /\ pc = "save2"
  /\ \E ok \in BOOLEAN, r \in RandomDraws :
       Commit(EndIteration(Emit(Cur, IF ok THEN "save.return" ELSE "save.fail",
                                currentSlideImage), r))

\* ------------------------------------------------- the read loop's steps
\* Deno.stdin.read gave a chunk: decode it and run its handler
KeyPressOf(buffer) ==
  /\ pc # "exited"
  /\ reading /\ isListening
  /\ Commit(dispatch(Cur, buffer))

KeyPress == \E buffer \in KeyChunks : KeyPressOf(buffer)

\* variant of ReadEnd: the failed read is not caught and ends the process
ReadEnd_Uncaught ==
  /\ pc # "exited"
  /\ reading
  /\ Commit(exit([Cur EXCEPT !.reading = FALSE]))

\* Deno.stdin.read gave null or threw: the read loop ends
ReadEnd ==
  /\ pc # "exited"
  /\ reading
  /\ Commit([Cur EXCEPT !.reading = FALSE])

\* variant of Sigint: the listener exits without cleanup()
Sigint_NoCleanup ==
  /\ pc # "exited"
  /\ Commit(exit(Emit(Cur, "sigint", 0)))

\* ---------------------------------------------------- the signal listener
Sigint ==
  /\ pc # "exited"
  /\ Commit(exit(cleanup(Emit(Cur, "sigint", 0))))

\* a step of the main loop
MainStep ==
  \/ MkdirDone
  \/ FetchDone
  \/ BackoffDone
  \/ SleepWake
  \/ DownloadDone
  \/ DisplayDone
  \/ SaveDefaultDone
  \/ BarWriteDone
  \/ BarTickDone
  \/ PauseTickDone
  \/ SaveExplicitDone

Next ==
  \/ MainStep
  \/ KeyPress
  \/ ReadEnd
  \/ Sigint

Spec == Init /\ [][Next]_vars

SpecRetries == InitRetries /\ [][Next]_vars

\* the program with the default Config on a terminal in raw mode, the main
\* loop's pending await always settling in the end (a timer fires, a request
\* answers or times out, a child process ends)
InitCycling ==
  /\ config = parseArgs(Waifu, MaxInterval, FALSE, FALSE)
  /\ apiKey = TRUE
  /\ rawMode = TRUE
  /\ Constructed

SpecCycling == InitCycling /\ [][Next]_vars /\ WF_vars(MainStep)

\* ------------------------------------------------- the spinner's timer
\* Spec leaves the spinner's interval callback out: it draws the spinner's
\* line and moves currentFrame, which nothing else reads.  SpecSpinner is
\* the program with that callback as one more task.
\* setInterval callback, every 80 ms while a timer is live
TimerTick ==
  /\ pc # "exited"
  /\ timers > 0
  /\ Commit([Cur EXCEPT !.currentFrame = (@ + 1) % FrameCount])

NextSpinner ==
  \/ Next
  \/ TimerTick

SpecSpinner == InitCycling /\ [][NextSpinner]_vars

\* ------------------------------------------------- the key decoder alone
\* The read loop's body has no await between the read and the handler, so in
\* Spec its locals are out of scope at every step boundary.  SpecDecoder
\* stops the loop body after parseKeyPress instead: the chunk read and the
\* key decoded are its state, the rest of the program stands still.
\* single bytes 0..MaxByte, and every 2- and 3-byte chunk over SeqBytes
SeqBytes == {3, 13, 27, 32, 65, 67, 68, 90, 91, 113}
ByteChunks ==
  {<<b>> : b \in 0..MaxByte}
    \cup {<<a, b>> : a \in SeqBytes, b \in SeqBytes}
    \cup {<<a, b, c>> : a \in SeqBytes, b \in SeqBytes, c \in SeqBytes}

InitDecoder == InitCycling

\* nread bytes were read; const key = this.parseKeyPress(buffer.slice(0, nread))
ReadChunk ==
  /\ reading /\ isListening
  /\ \E b \in ByteChunks :
       /\ readBuffer' = b
       /\ readKey' = parseKeyPress(b)
  /\ UNCHANGED <<config, apiKey, pc, isRunning, isPaused, skipRequested,
                 saveRequested, currentSlideImage, currentImageBuffer,
                 isListening, reading, rawMode, spinnerRunning, spinnerMsg,
                 fetcher, attempt, delays, delay, slideImage, imageBuffer,
                 remaining, currentUpdate, ticks, held, saves, clears,
                 phases, ev, imageShape, terminalSize, args, storage, now,
                 savePath, intervalId, timers, currentFrame, screen>>

NextDecoder == ReadChunk

SpecDecoder == InitDecoder /\ [][NextDecoder]_vars

\* ---------------------------------------------- the sizing of one image
\* Spec takes displayImage by its outcome.  SpecSizing runs displayImage's
\* sizing once, on a terminal of any size up to MaxColumns x MaxRows and an
\* image of any shape; the rest of the program stands still.
Max(a, b) == IF a > b THEN a ELSE b

\* variant of sizing: a ratio of 2.5 already counts as wide
sizing_AtLeast(columns, rows) ==
  LET availableHeight == Max(10, rows - reservedLines)
      availableWidth == Max(40, columns - 4)
  IN IF 2 * availableWidth >= 5 * availableHeight
     THEN <<"--height=", availableHeight>>
     ELSE <<"--width=", availableWidth>>

\* the sizing argument; availableWidth / availableHeight > 2.5 is taken over
\* the integers as 2 * availableWidth > 5 * availableHeight
sizing(columns, rows) ==
  LET availableHeight == Max(10, rows - reservedLines)
      availableWidth == Max(40, columns - 4)
  IN IF 2 * availableWidth > 5 * availableHeight
     THEN <<"--height=", availableHeight>>
     ELSE <<"--width=", availableWidth>>

InitSizing == InitDecoder

\* displayImage(buffer, config) up to the sizing argument
SizeImage ==
  /\ args = <<>>
  /\ \E columns \in 0..MaxColumns, rows \in 0..MaxRows,
        shape \in ImageShapes :
       /\ imageShape' = shape
       /\ terminalSize' = <<columns, rows>>
       /\ args' = sizing(columns, rows)
  /\ UNCHANGED <<config, apiKey, pc, isRunning, isPaused, skipRequested,
                 saveRequested, currentSlideImage, currentImageBuffer,
                 isListening, reading, rawMode, spinnerRunning, spinnerMsg,
                 fetcher, attempt, delays, delay, slideImage, imageBuffer,
                 remaining, currentUpdate, ticks, held, saves, clears,
                 phases, ev, readBuffer, readKey, storage, now, savePath,
                 intervalId, timers, currentFrame, screen>>

NextSizing == SizeImage

SpecSizing == InitSizing /\ [][NextSizing]_vars

\* ------------------------------------------------ the saving of slides
\* Spec takes saveImage by its outcome.  SpecSave keeps the files: a slide
\* becomes the current one (ShowSlide) and is saved, by the default save and
\* then by the explicit one (SaveSlide), time passing between the calls.
\* A URL's last path segment is a sequence of tokens; SlideTable holds the
\* descriptors a fetcher may return, a slide being its index in the table.
SlideTable ==
  << [source |-> Waifu, tail |-> <<"a", ".", "jpg">>, isNsfw |-> FALSE,
      tags |-> {"maid"}],
     [source |-> Waifu, tail |-> <<"a">>, isNsfw |-> FALSE, tags |-> {}],
     [source |-> Waifu, tail |-> <<"a", ".", "jpg", "?", "w=1">>,
      isNsfw |-> FALSE, tags |-> {"ecchi"}],
     [source |-> Waifu, tail |-> <<>>, isNsfw |-> TRUE, tags |-> {}],
     [source |-> Pexels, tail |-> <<"a", ".", "jpg", "?", "auto">>,
      isNsfw |-> FALSE, tags |-> {}],
     [source |-> Pexels, tail |-> <<>>, isNsfw |-> FALSE, tags |-> {}] >>

NsfwTags == {"ass", "hentai", "milf", "oral", "paizuri", "ecchi", "ero"}

\* name.split("?")[0]
RECURSIVE beforeQuery(_)
beforeQuery(name) ==
  IF name = <<>> \/ Head(name) = "?" THEN <<>>
  ELSE <<Head(name)>> \o beforeQuery(Tail(name))

\* fileName: the URL's last segment, or <source>-<Date.now()>.jpg if it is
\* empty; cut at the query; .jpg appended if it has no dot
fileNameOf(slide, t) ==
  LET raw == IF slide.tail # <<>> THEN slide.tail
             ELSE <<slide.source, "-", ToString(t), ".", "jpg">>
      name == beforeQuery(raw)
  IN IF \E i \in DOMAIN name : name[i] = "." THEN name
     ELSE name \o <<".", "jpg">>

subDirOf(slide) ==
  IF slide.source = Pexels THEN "pexels"
  ELSE IF slide.source = Waifu
  THEN (IF slide.isNsfw \/ slide.tags \cap NsfwTags # {}
        THEN "waifus/NSFW" ELSE "waifus/SFW")
  ELSE slide.source

savePathOf(slide, t) == <<subDirOf(slide), fileNameOf(slide, t)>>

Paths(files) == {f.path : f \in files}

\* variant of saveImage: the file is written whether or not it exists
saveImage_Overwrites(files, buffer, slide, t, written) ==
  IF ~written THEN files
  ELSE {f \in files : f.path # savePathOf(slide, t)}
         \cup {[path |-> savePathOf(slide, t), bytes |-> buffer]}

\* saveImage(buffer, slideImage, outputDir) at time t: stat finds the file
\* and nothing is written, or writeFile creates it (written) or throws
saveImage(files, buffer, slide, t, written) ==
  IF savePathOf(slide, t) \in Paths(files) \/ ~written THEN files
  ELSE files \cup {[path |-> savePathOf(slide, t), bytes |-> buffer]}

InitSave == InitCycling

\* this.currentSlide = {image, buffer}
ShowSlide ==
  /\ \E i \in DOMAIN SlideTable :
       /\ currentSlideImage' = i
       /\ currentImageBuffer' = i
  /\ saves' = 0
  /\ UNCHANGED <<config, apiKey, pc, isRunning, isPaused, skipRequested,
                 saveRequested, isListening, reading, rawMode, spinnerRunning,
                 spinnerMsg, fetcher, attempt, delays, delay, slideImage,
                 imageBuffer, remaining, currentUpdate, ticks, held, clears,
                 phases, ev, readBuffer, readKey, imageShape, terminalSize,
                 args, storage, now, savePath, intervalId, timers,
                 currentFrame, screen>>

\* await ImageProcessor.saveImage(buffer, image, outputDir): the default
\* save, then the explicit one; the clock has moved on when the call is over
SaveSlide ==
  /\ currentSlideImage # Null /\ saves < 2 /\ now < MaxNow
  /\ \E written \in BOOLEAN :
       storage' = saveImage(storage, currentImageBuffer,
                            SlideTable[currentSlideImage], now, written)
  /\ savePath' = savePathOf(SlideTable[currentSlideImage], now)
  /\ now' = now + 1
  /\ saves' = saves + 1
  /\ UNCHANGED <<config, apiKey, pc, isRunning, isPaused, skipRequested,
                 saveRequested, currentSlideImage, currentImageBuffer,
                 isListening, reading, rawMode, spinnerRunning, spinnerMsg,
                 fetcher, attempt, delays, delay, slideImage, imageBuffer,
                 remaining, currentUpdate, ticks, held, clears, phases, ev,
                 readBuffer, readKey, imageShape, terminalSize, args,
                 intervalId, timers, currentFrame, screen>>

NextSave == ShowSlide \/ SaveSlide

SpecSave == InitSave /\ [][NextSave]_vars

\* ================================================================= claims
Range(f) == {f[i] : i \in DOMAIN f}
HasIn(e, op) == \E i \in DOMAIN e : e[i].op = op
Has(op) == HasIn(ev, op)
Last(q) == q[Len(q)]
\* this step (of the main loop) enters ph
Entered(ph) == HasIn(ev', ph)
IndexOf(e, op) == CHOOSE i \in DOMAIN e : e[i].op = op
\* this step starts a new iteration at Fetching with no timed wait before it:
\* a fetch is in flight, or the fetcher chosen gave null at once (no API key)
StartsFetching ==
  /\ HasIn(ev', "iteration") /\ Entered("Fetching")
  /\ \A i \in 1..IndexOf(ev', "iteration") : ev'[i].op # "sleep"
  /\ phases'[1] = "Fetching"
  /\ \/ pc' = "fetch" /\ phases' = <<"Fetching">> /\ ~HasIn(ev', "sleep")
     \/ pc' = "sleep" /\ HasIn(ev', "fetch.nokey")
WaitingPcs == {"barWrite", "barTick", "pauseTick"}
QuitChunks == {<<113>>, <<81>>, <<3>>}
SkipChunks == {<<110>>, <<78>>, <<27, 91, 67>>}

\* C1: a quit key (q, Q, ctrl+c) dispatched in any state ends the process in
\* that step, with running false, the spinner stopped, the listener detached,
\* raw mode off and the screen cleared last; once the process has ended no
\* step changes anything (no call, no tick, no new iteration).
C1_QuitStops ==
  /\ [][\A b \in QuitChunks :
          (pc # "exited" /\ KeyPressOf(b)) =>
            /\ pc' = "exited"
            /\ ~isRunning' /\ ~spinnerRunning' /\ ~isListening' /\ ~rawMode'
            /\ Last(ev').op = "clear"
            /\ ~HasIn(ev', "iteration")]_vars
  /\ [][pc = "exited" => UNCHANGED vars]_vars

\* C1 witness: q was dispatched in the middle of a paused wait with skip and
\* save pending
C1_Witness ==
  /\ pc = "exited" /\ Has("quit")
  /\ Len(phases) > 1 /\ phases[Len(phases) - 1] = "Waiting"
  /\ isPaused /\ skipRequested /\ saveRequested

\* C2: whenever run() has returned or the process has exited, raw mode is off.
C2_RawModeReleased == pc \in {"returned", "exited"} => ~rawMode

\* C3: the phases entered in an iteration are a prefix of Fetching,
\* Downloading, Converting, Displaying, Waiting, followed at most by the
\* error wait and by Stopped; a phase is entered only by the step in which
\* its predecessor succeeded; a new iteration starts only from Waiting, from
\* an error wait, or from Fetching/Downloading with a skip pending.
PhaseOrder == <<"Fetching", "Downloading", "Converting", "Displaying", "Waiting">>
IsPrefix(a, b) == Len(a) <= Len(b) /\ \A i \in DOMAIN a : a[i] = b[i]
DropLast(q, x) == IF Len(q) > 0 /\ Last(q) = x THEN SubSeq(q, 1, Len(q) - 1) ELSE q
PhaseCore == DropLast(DropLast(phases, "Stopped"), "ErrorRecovery")
IsPhase(x) == x \in Range(PhaseOrder) \cup {"ErrorRecovery"}
OpsOf(e) == [i \in DOMAIN e |-> e[i].op]
BeforeIteration(q) ==
  IF \E i \in DOMAIN q : q[i] = "iteration"
  THEN SubSeq(q, 1, (CHOOSE i \in DOMAIN q : q[i] = "iteration") - 1)
  ELSE q
\* the phases of the iteration the step starts in, those the step passes
\* through before it starts a new iteration included
Route == phases \o SelectSeq(BeforeIteration(OpsOf(ev')), IsPhase)

C3_PhaseOrder ==
  /\ [](/\ IsPrefix(PhaseCore, PhaseOrder)
        /\ (pc \in {"returned", "exited"} <=> "Stopped" \in Range(phases))
        /\ (pc \notin {"mkdir", "returned", "exited"} => Len(PhaseCore) > 0))
  /\ [][MainStep =>
          /\ IsPrefix(DropLast(Route, "ErrorRecovery"), PhaseOrder)
          /\ Entered("Downloading") => pc = "fetch" /\ HasIn(ev', "fetch.return")
          /\ Entered("Converting") =>
                pc = "download" /\ HasIn(ev', "download.return")
          /\ Entered("Displaying") => pc = "display" /\ HasIn(ev', "render.return")
          /\ Entered("Waiting") =>
                \/ pc = "save1" /\ HasIn(ev', "save.return")
                \/ pc = "display" /\ HasIn(ev', "render.return") /\ config.noSave
          /\ HasIn(ev', "iteration") =>
                \/ pc = "mkdir"
                \/ Last(Route) \in {"Waiting", "ErrorRecovery"}
                \/ (Last(Route) \in {"Fetching", "Downloading"} /\ skipRequested)
       ]_vars

\* C3 witness: an iteration that went through all five phases
C3_Witness == phases = PhaseOrder /\ pc = "barTick"

\* C4: when the fetch returns (a descriptor or null) with a skip pending, that
\* step stops the spinner and starts the next iteration without any timed
\* wait, and does not download.
C4_SkipDuringFetch ==
  [][(skipRequested /\ pc = "fetch" /\ pc' # "backoff" /\ FetchDone) =>
       /\ HasIn(ev', "spinner.stop")
       /\ StartsFetching
       /\ ~HasIn(ev', "download.call")]_vars

\* C4 (amended): when the fetch returns a descriptor with a skip pending,
\* that step stops the spinner and starts the next iteration at Fetching with
\* no timed wait and no download, and no variable keeps the descriptor; when
\* the fetch returns null with a skip pending, the step stops the spinner and
\* begins the 5000 ms wait, as it does without a skip.
C4_SkipDuringFetchDescriptor ==
  [][(skipRequested /\ pc = "fetch" /\ pc' # "backoff" /\ FetchDone) =>
       /\ HasIn(ev', "spinner.stop")
       /\ ~HasIn(ev', "download.call") /\ ~HasIn(ev', "Downloading")
       /\ HasIn(ev', "fetch.return") =>
             /\ StartsFetching
             /\ ev'[1].id \notin {slideImage', imageBuffer', currentSlideImage',
                                   currentImageBuffer'}
       /\ ~HasIn(ev', "fetch.return") =>
             /\ pc' = "sleep" /\ remaining' = ErrorWaitMs
             /\ ~HasIn(ev', "iteration")]_vars

\* C4 witness: the fetch for a second slide returned a descriptor under a
\* pending skip and the next fetch is in flight
C4_Witness ==
  /\ pc = "fetch" /\ Has("fetch.return") /\ Has("iteration")
  /\ currentSlideImage # Null

\* C5: a main-loop step taken before Waiting with a skip pending neither
\* draws the caption, nor persists the slide, nor enters Waiting.
C5_SkipShortCircuits ==
  [][(skipRequested /\ pc \in {"fetch", "download", "display", "save1"} /\ MainStep) =>
       /\ ~HasIn(ev', "caption")
       /\ ~HasIn(ev', "save.default")
       /\ ~Entered("Waiting")]_vars

\* C6: when the download returns its bytes with a skip pending, that step
\* stops the spinner and starts the next iteration at Fetching: nothing is
\* rendered, captioned or persisted, Waiting is not entered and the bytes are
\* not kept.
C6_SkipDuringDownload ==
  [][(skipRequested /\ pc = "download" /\ HasIn(ev', "download.return")
      /\ DownloadDone) =>
       /\ HasIn(ev', "spinner.stop") /\ StartsFetching
       /\ \A op \in {"Converting", "render.call", "image", "caption",
                     "save.default", "save.explicit", "Waiting", "bar.draw"} :
             ~HasIn(ev', op)
       /\ imageBuffer' = Null
       /\ currentImageBuffer' = currentImageBuffer
       /\ currentSlideImage' = currentSlideImage]_vars

\* C6 witness: the download of a second slide returned under a pending skip
C6_Witness ==
  /\ Has("download.return") /\ Has("iteration")
  /\ currentSlideImage # Null

\* C7: a main-loop step taken in Waiting while paused, with no skip pending,
\* stays in Waiting and leaves the counter alone.
C7_PausedWaitingHolds ==
  [][(pc \in WaitingPcs /\ isPaused /\ ~skipRequested /\ isRunning /\ MainStep) =>
       /\ pc' \in WaitingPcs
       /\ ~HasIn(ev', "wait.end")]_vars

\* C7 witness: held by the pause with the bar full
C7_Witness ==
  pc = "pauseTick" /\ isPaused /\ ~skipRequested /\ currentUpdate = totalUpdates

\* C8: while paused no step of Waiting changes the counter or the count of
\* un-paused waits; un-paused, the bar advances by exactly one from the value
\* it holds; and a wait that completes has taken exactly totalUpdates
\* un-paused waits, paused or not.
C8_PauseKeepsCounter ==
  /\ [][(pc \in WaitingPcs /\ isPaused /\ pc' \in WaitingPcs /\ MainStep) =>
          currentUpdate' = currentUpdate /\ ticks' = ticks]_vars
  /\ [][(pc = "barWrite" /\ ~isPaused /\ pc' \in WaitingPcs /\ BarWriteDone) =>
          currentUpdate' = currentUpdate + 1 /\ ticks' = ticks + 1]_vars
  /\ [][(pc \in WaitingPcs /\ ~skipRequested /\ HasIn(ev', "wait.end")
          /\ MainStep) =>
          ticks = totalUpdates /\ currentUpdate = totalUpdates]_vars

\* C8 witness: the bar advancing again after a pause in mid-interval
C8_Witness ==
  pc = "barTick" /\ held /\ ~isPaused /\ currentUpdate > 1 /\ ticks = currentUpdate

\* C9: a wait that ends with no skip pending and without ever having been
\* held by a pause has taken exactly 10 * intervalSeconds waits of 100 ms, and
\* ends from the write of the full bar without another wait.
C9_ExactTicks ==
  [][(pc \in WaitingPcs /\ ~skipRequested /\ ~held /\ HasIn(ev', "wait.end")
      /\ MainStep) =>
       /\ ticks = 10 * config.intervalSeconds
       /\ pc = "barWrite"
       /\ ~HasIn(ev', "tick") /\ ~HasIn(ev', "tick.paused")]_vars

\* C9 witness: the bar completed, never held, after 10 waits per second of
\* an interval of two seconds or more
C9_Witness ==
  /\ config.intervalSeconds > 1 /\ ticks = 10 * config.intervalSeconds /\ ~held
  /\ Has("wait.end") /\ pc = "save2"

\* C10: with a skip pending, the 100 ms wait in flight is the last one (the
\* step that ends it ends Waiting), a bar write in flight is followed by at
\* most that one wait, and a quit key ends the process at once.
C10_StopsWithinOneTick ==
  /\ [][(pc \in {"barTick", "pauseTick"} /\ skipRequested /\ MainStep) =>
          HasIn(ev', "wait.end") /\ pc' \notin WaitingPcs]_vars
  /\ [][(pc = "barWrite" /\ skipRequested /\ MainStep) =>
          \/ HasIn(ev', "wait.end") /\ pc' \notin WaitingPcs
          \/ pc' = "barTick" /\ skipRequested']_vars
  /\ [][\A b \in QuitChunks :
          (pc \in WaitingPcs /\ KeyPressOf(b)) => pc' = "exited"]_vars

\* C10 witness: skip pressed while the paused loop is waiting
C10_Witness == pc = "pauseTick" /\ skipRequested /\ isPaused

\* C11: the s key (either case) sets saveRequested, which only the start of
\* the next iteration clears; and the step that ends Waiting, by the bar
\* completing or by skip, with saveRequested set calls saveImage next, with
\* the descriptor and bytes of the iteration's slide, whatever noSave is.
SaveChunks == {<<115>>, <<83>>}

C11_RequestedSaveRuns ==
  /\ [][\A b \in SaveChunks : (pc # "exited" /\ KeyPressOf(b)) => saveRequested']_vars
  /\ [][(saveRequested /\ ~saveRequested') => HasIn(ev', "iteration")]_vars
  /\ [][(saveRequested /\ HasIn(ev', "wait.end") /\ MainStep) =>
          /\ pc' = "save2"
          /\ Last(ev') = E("save.explicit", slideImage)
          /\ IndexOf(ev', "wait.end") < Len(ev')
          /\ slideImage # Null
          /\ currentSlideImage' = slideImage
          /\ currentImageBuffer' = imageBuffer /\ imageBuffer = slideImage]_vars

\* C11 witness: under --no-save, the save asked for is in flight after a
\* Waiting that a skip ended
C11_Witness ==
  /\ pc = "save2" /\ config.noSave /\ skipRequested /\ Has("wait.end")
  /\ Last(ev) = E("save.explicit", currentSlideImage)

\* C12: the SIGINT listener leaves every variable as the q handler run in
\* the same state leaves it, by the same effects in the same order after
\* the cause: running false, spinner stopped, listener off, raw mode off,
\* screen cleared, then Stopped.
C12_SigintAsQuit ==
  [][(pc # "exited" /\ pc' = "exited" /\ ev'[1].op = "sigint" /\ Sigint) =>
       LET q == handler(Cur, "q")
       IN /\ <<pc', isRunning', isPaused', skipRequested', saveRequested',
               currentSlideImage', currentImageBuffer', isListening',
               rawMode', spinnerRunning', spinnerMsg', fetcher', attempt',
               delays', delay', slideImage', imageBuffer', remaining', currentUpdate',
               ticks', held', saves', clears', phases'>>
             = <<q.pc, q.isRunning, q.isPaused, q.skipRequested,
                 q.saveRequested, q.currentSlideImage, q.currentImageBuffer,
                 q.isListening, q.rawMode, q.spinnerRunning, q.spinnerMsg,
                 q.fetcher, q.attempt, q.delays, q.delay, q.slideImage, q.imageBuffer,
                 q.remaining, q.currentUpdate, q.ticks, q.held, q.saves,
                 q.clears, q.phases>>
          /\ q.ev[1].op = "quit" /\ Tail(ev') = Tail(q.ev)
          /\ ~isRunning' /\ ~spinnerRunning' /\ ~isListening' /\ ~rawMode'
          /\ Last(ev').op = "clear" /\ Last(phases') = "Stopped"
          /\ spinnerRunning => HasIn(ev', "spinner.stop")]_vars

\* C12 witness: SIGINT arrived while the spinner ran during a download, on a
\* terminal in raw mode
C12_Witness ==
  /\ pc = "exited" /\ ev[1].op = "sigint" /\ Has("spinner.stop")
  /\ phases = <<"Fetching", "Downloading", "Stopped">>

\* C13: with no skip, save or pause pending, (1) a fetch that returns a
\* descriptor enters Downloading; (2) a download that returns enters
\* Converting and clears the screen once, the first clear of the iteration;
\* (3) a render that returns enters Displaying with no further clear and
\* calls saveImage once unless noSave, in which case it enters Waiting;
\* (4) the step that ends the default save enters Waiting; (5) the wait that
\* completes has seen the five phases in order and one saveImage call (none
\* under noSave), calls no save and starts the next iteration at Fetching.
NoKeyFlags == ~skipRequested /\ ~saveRequested /\ ~isPaused

C13_UpToDisplay ==
  /\ [][(pc = "fetch" /\ NoKeyFlags /\ HasIn(ev', "fetch.return") /\ FetchDone) =>
          Entered("Downloading") /\ pc' = "download"]_vars
  /\ [][(pc = "download" /\ NoKeyFlags /\ HasIn(ev', "download.return")
          /\ DownloadDone) =>
          /\ Entered("Converting") /\ pc' = "display"
          /\ clears = 0 /\ clears' = 1
          /\ IndexOf(ev', "Converting") < IndexOf(ev', "clear")]_vars
  /\ [][(pc = "display" /\ NoKeyFlags /\ HasIn(ev', "render.return")
          /\ DisplayDone) =>
          /\ Entered("Displaying") /\ clears = 1
          /\ \A i \in 1..IndexOf(ev', "Displaying") : ev'[i].op # "clear"
          /\ IF config.noSave
             THEN saves' = 0 /\ Entered("Waiting") /\ pc' = "barWrite"
             ELSE /\ saves' = 1 /\ pc' = "save1"
                  /\ Last(ev') = E("save.default", slideImage)]_vars

C13_FromWaiting ==
  [][(pc \in WaitingPcs /\ NoKeyFlags /\ ~held /\ HasIn(ev', "wait.end")
      /\ MainStep) =>
       /\ phases = PhaseOrder
       /\ saves = (IF config.noSave THEN 0 ELSE 1)
       /\ \A op \in SaveOps : ~HasIn(ev', op)
       /\ StartsFetching]_vars

RenderFailed == <<"Fetching", "Downloading", "Converting", "ErrorRecovery">>

C14_RenderFailure ==
  /\ [][(pc = "display" /\ HasIn(ev', "jp2a failed") /\ DisplayDone) =>
          /\ HasIn(ev', "error.panel")
          /\ \A op \in {"image", "caption", "Displaying", "Waiting", "bar.draw",
                        "iteration", "save.default", "save.explicit"} :
                ~HasIn(ev', op)
          /\ pc' = "sleep" /\ remaining' = RenderFailWaitMs
          /\ Last(ev') = E("sleep", RenderFailWaitMs)
          /\ phases' = RenderFailed /\ saves' = 0
          /\ isRunning']_vars
  /\ [][(pc = "sleep" /\ SleepWake) =>
          IF remaining > SleepChunk
          THEN pc' = "sleep" /\ remaining' = remaining - SleepChunk
          ELSE /\ HasIn(ev', "iteration") /\ isRunning'
               /\ phases = RenderFailed => StartsFetching]_vars
  /\ [][(pc = "sleep" /\ phases = RenderFailed /\ MainStep) =>
          /\ saves = 0 /\ saves' = 0
          /\ \A op \in {"caption", "Waiting"} : ~HasIn(ev', op)]_vars
  /\ [](pc = "sleep" => remaining \in 1..ErrorWaitMs /\ isRunning)

\* C14 witness: the 3000 ms wait has begun behind the error panel
C14_Witness ==
  /\ pc = "sleep" /\ remaining = RenderFailWaitMs
  /\ Has("jp2a failed") /\ Has("error.panel") /\ phases = RenderFailed

\* C15: a step of the main loop in which a collaborator fails (an attempt of
\* the fetch, the download, the render, the default save) leaves the process
\* running and begins a wait: a backoff of at most 10000 ms before the next
\* attempt, or a sleep of at most 5000 ms; every wait is positive, bounded
\* and shrinks to a step that starts the next iteration or the next attempt;
\* and the run ends only by a quit key, by SIGINT, or by the failure of
\* mkdir at startup.
FailOps == {"fetch.fail", "download.fail", "render.fail", "save.fail"}
Ended == pc \in {"returned", "exited"}

C15_FailuresAreNotFatal ==
  /\ [][((\E op \in FailOps : HasIn(ev', op)) /\ pc \notin {"save2", "exited"}
          /\ MainStep) =>
          /\ isRunning' /\ ~Ended'
          /\ \/ pc' = "backoff" /\ delay' \in 1..BackoffCapMs
             \/ pc' = "sleep" /\ remaining' \in {RenderFailWaitMs, ErrorWaitMs}
          /\ ~HasIn(ev', "iteration")]_vars
  /\ [](pc = "sleep" => remaining \in 1..ErrorWaitMs)
  /\ [](pc = "backoff" => delay \in 1..BackoffCapMs /\ attempt < config.maxRetries)
  /\ [][(pc = "sleep" /\ MainStep) =>
          \/ pc' = "sleep" /\ remaining' < remaining /\ remaining' > 0
          \/ HasIn(ev', "iteration") /\ Entered("Fetching")]_vars
  /\ [][(pc = "backoff" /\ MainStep) => pc' = "fetch" /\ attempt' = attempt + 1]_vars
  /\ [][(~Ended /\ Ended') =>
          \/ ev'[1].op \in {"quit", "sigint"}
          \/ pc = "mkdir" /\ ev' = <<E("log.error", 0)>>]_vars

\* C15 witness: the default save threw and the 5000 ms wait has begun with
\* the process running
C15_Witness ==
  /\ pc = "sleep" /\ remaining = ErrorWaitMs /\ Has("save.fail") /\ isRunning
  /\ phases = <<"Fetching", "Downloading", "Converting", "Displaying",
                "ErrorRecovery">>

\* C16: the step in which fetchRandomImage returns null (the last attempt
\* failed, or the directory gave nothing) stops the spinner and begins a
\* wait of 5000 ms, calling neither download nor render, with the process
\* running, and so does the step in which the Pexels fetcher returns null
\* for want of an API key; the wait elapses in full, nothing is downloaded or rendered
\* during it, and the step that ends it starts Fetching again.
FetchFailed == <<"Fetching", "ErrorRecovery">>

C16_NullFetch ==
  /\ [][(pc = "fetch" /\ pc' # "backoff" /\ ~HasIn(ev', "fetch.return")
          /\ FetchDone) =>
          /\ spinnerRunning /\ HasIn(ev', "spinner.stop") /\ ~spinnerRunning'
          /\ pc' = "sleep" /\ remaining' = ErrorWaitMs
          /\ Last(ev') = E("sleep", ErrorWaitMs)
          /\ \A op \in {"download.call", "render.call", "Downloading",
                        "iteration"} : ~HasIn(ev', op)
          /\ phases' = FetchFailed /\ slideImage' = Null
          /\ isRunning' /\ ~Ended']_vars
  /\ [][(HasIn(ev', "fetch.nokey") /\ MainStep) =>
          /\ HasIn(ev', "spinner.stop") /\ ~spinnerRunning'
          /\ pc' = "sleep" /\ remaining' = ErrorWaitMs
          /\ Last(ev') = E("sleep", ErrorWaitMs)
          /\ \A op \in {"download.call", "render.call"} : ~HasIn(ev', op)
          /\ phases' = FetchFailed /\ isRunning' /\ ~Ended']_vars
  /\ [][(pc = "sleep" /\ phases = FetchFailed /\ MainStep) =>
          /\ \A op \in {"download.call", "render.call"} : ~HasIn(ev', op)
          /\ IF remaining > SleepChunk
             THEN pc' = "sleep" /\ remaining' = remaining - SleepChunk
             ELSE HasIn(ev', "iteration") /\ Entered("Fetching") /\ ~Ended']_vars

\* C16 witness: the third attempt failed and the 5000 ms wait has begun
C16_Witness ==
  /\ pc = "sleep" /\ remaining = ErrorWaitMs
  /\ ev[1] = E("fetch.fail", config.maxRetries) /\ Has("log.warn")

\* C17: when the source is neither waifu, pexels, random nor path-like, no
\* fetch is ever called; every step that starts an iteration stops the
\* spinner it started and begins a wait of 5000 ms; the wait elapses in full
\* whatever flags are set, and only a quit key or SIGINT ends the run
\* once mkdir succeeded.
UnknownSource ==
  /\ config.source \notin {Waifu, Pexels, Random}
  /\ ~isDirectoryPath(config.source)

C17_UnknownSource ==
  /\ [](UnknownSource => pc \in {"mkdir", "sleep", "returned", "exited"})
  /\ [][UnknownSource =>
          \A op \in {"fetch.call", "download.call", "render.call"} :
             ~HasIn(ev', op)]_vars
  /\ [][(UnknownSource /\ HasIn(ev', "iteration") /\ MainStep) =>
          /\ Entered("Fetching")
          /\ HasIn(ev', "spinner.start") /\ HasIn(ev', "spinner.stop")
          /\ ~spinnerRunning'
          /\ pc' = "sleep" /\ remaining' = ErrorWaitMs
          /\ Last(ev') = E("sleep", ErrorWaitMs)]_vars
  /\ [][(UnknownSource /\ pc = "sleep" /\ MainStep) =>
          IF remaining > SleepChunk
          THEN pc' = "sleep" /\ remaining' = remaining - SleepChunk
          ELSE HasIn(ev', "iteration")]_vars
  /\ [][(UnknownSource /\ pc = "sleep" /\ Ended') =>
          ev'[1].op \in {"quit", "sigint"}]_vars

\* C17 witness: the last second of the wait of an unknown source, a skip
\* and a pause pending
C17_Witness ==
  /\ UnknownSource /\ pc = "sleep" /\ remaining = SleepChunk
  /\ skipRequested /\ isPaused

\* C18: in the retry loop (waifu, pexels) the attempts are numbered from 1,
\* attempt a is preceded by a - 1 delays, a failed attempt below maxRetries
\* begins one delay after which the next attempt starts, and the failure of
\* attempt maxRetries returns null to run() (the null branch, not the catch)
\* after maxRetries attempts and maxRetries - 1 delays.
InRetryLoop == pc \in {"fetch", "backoff"} /\ fetcher \in {"waifu", "pexels"}

C18_AllAttemptsFail ==
  /\ [](InRetryLoop =>
          /\ attempt \in 1..config.maxRetries
          /\ delays = (IF pc = "fetch" THEN attempt - 1 ELSE attempt))
  /\ [][(InRetryLoop /\ pc = "fetch" /\ HasIn(ev', "fetch.fail") /\ FetchDone) =>
          IF attempt < config.maxRetries
          THEN /\ pc' = "backoff" /\ attempt' = attempt /\ delays' = delays + 1
               /\ ~HasIn(ev', "log.warn")
          ELSE /\ attempt = config.maxRetries /\ delays = config.maxRetries - 1
               /\ ev'[1] = E("fetch.fail", config.maxRetries)
               /\ HasIn(ev', "log.warn") /\ ~HasIn(ev', "log.error")
               /\ ~HasIn(ev', "backoff") /\ ~HasIn(ev', "fetch.retry")
               /\ pc' = "sleep" /\ slideImage' = Null]_vars
  /\ [][(InRetryLoop /\ pc = "backoff" /\ MainStep) =>
          /\ pc' = "fetch" /\ attempt' = attempt + 1 /\ delays' = delays
          /\ ev' = <<E("fetch.retry", attempt + 1)>>]_vars

\* C18 witness: with maxRetries above the default, the last attempt failed
\* and null went back to run()
C18_Witness ==
  /\ config.maxRetries > DefaultMaxRetries
  /\ ev[1] = E("fetch.fail", config.maxRetries) /\ Has("log.warn")
  /\ pc = "sleep"

\* C19: an attempt that succeeds is attempt k of 1..maxRetries after k - 1
\* delays; its descriptor goes back to run() in that step, which begins no
\* delay and no further attempt of this fetch; and the counter is within
\* 1..maxRetries wherever the loop is.
C19_FirstSuccess ==
  /\ [](InRetryLoop => attempt \in 1..config.maxRetries)
  /\ [][(InRetryLoop /\ pc = "fetch" /\ HasIn(ev', "fetch.return") /\ FetchDone) =>
          /\ attempt \in 1..config.maxRetries /\ delays = attempt - 1
          /\ ev'[2] = E("fetch.attempts", attempt)
          /\ ev'[1].id \in Ids
          /\ ~HasIn(ev', "backoff") /\ ~HasIn(ev', "fetch.retry")
          /\ pc' # "backoff" /\ delays' = 0
          /\ IF skipRequested
             THEN HasIn(ev', "iteration") /\ attempt' = 1
             ELSE /\ pc' = "download" /\ attempt' = 0
                  /\ slideImage' = ev'[1].id
                  /\ Last(ev') = E("download.call", ev'[1].id)]_vars

\* C19 witness: the fourth attempt succeeded and its descriptor is being
\* downloaded
C19_Witness ==
  /\ pc = "download" /\ ev[1].op = "fetch.return"
  /\ ev[2] = E("fetch.attempts", 4) /\ slideImage = ev[1].id

\* C20: the delay begun after failed attempt a is min(1000 * 2^(a-1), 10000):
\* 1000, 2000, 4000, 8000, 10000, 10000 for a = 1..6; it is never above
\* 10000 and never below the delay of an earlier attempt.
DelayTable == <<1000, 2000, 4000, 8000, 10000, 10000>>

C20_BackoffDelay ==
  /\ [](pc = "backoff" =>
          /\ delay = (IF 1000 * 2^(attempt - 1) < 10000
                      THEN 1000 * 2^(attempt - 1) ELSE 10000)
          /\ attempt <= Len(DelayTable) => delay = DelayTable[attempt]
          /\ delay <= 10000
          /\ \A a \in 1..attempt : backoffDelay(a) <= delay)
  /\ [][(pc = "fetch" /\ pc' = "backoff") =>
          /\ delay' = backoffDelay(attempt)
          /\ ev' = <<E("fetch.fail", attempt), E("backoff", delay')>>]_vars

\* C20 witness: the capped delay after the sixth failed attempt
C20_Witness ==
  pc = "backoff" /\ attempt = 6 /\ delay = 10000 /\ delays = 6

\* C21: the key decoded from a chunk of 1 to 3 bytes is escape for [27],
\* space for [32], enter for [13], backspace for [127], ctrl+c for [3], the
\* lower-cased character for any other single byte in 32..126, the arrow for
\* [27,91,65..68], and nothing for every other chunk.
Letters ==
  <<"a", "b", "c", "d", "e", "f", "g", "h", "i", "j", "k", "l", "m",
    "n", "o", "p", "q", "r", "s", "t", "u", "v", "w", "x", "y", "z">>
KeyNames ==
  {"escape", "space", "enter", "backspace", "ctrl+c",
   "arrow-up", "arrow-down", "arrow-right", "arrow-left"}
Arrows == <<"arrow-up", "arrow-down", "arrow-right", "arrow-left">>
Named == {3, 13, 27, 32, 127}

PauseChunks == {<<32>>}
Flags == <<isPaused, skipRequested, saveRequested, isRunning>>

C22_KeyDispatch ==
  [][\A b \in KeyChunks :
       ((pc' = pc \/ pc' = "exited") /\ pc # "exited" /\ KeyPressOf(b)) =>
         IF b \in PauseChunks
         THEN Flags' = <<~isPaused, skipRequested, saveRequested, isRunning>>
         ELSE IF b \in SkipChunks
         THEN Flags' = <<isPaused, TRUE, saveRequested, isRunning>>
         ELSE IF b \in SaveChunks
         THEN Flags' = <<isPaused, skipRequested, TRUE, isRunning>>
         ELSE IF b \in QuitChunks
         THEN /\ Flags' = <<isPaused, skipRequested, saveRequested, FALSE>>
              /\ pc' = "exited"
         ELSE UNCHANGED vars]_vars

\* C22 witness: pause, skip and save were each dispatched during a fetch
C22_Witness ==
  pc = "fetch" /\ isPaused /\ skipRequested /\ saveRequested /\ isRunning

C24_ImageAspect ==
  [](args # <<>> =>
       /\ imageShape = "portrait" => args[1] = "--height="
       /\ imageShape = "landscape" => args[1] = "--width=")

\* C25: when a read fails or reaches end of input the read loop ends and
\* nothing else happens in that step (the main loop stays at its await, no
\* flag changes, nothing is raised); from then on the loop never reads
\* again, isPaused never changes, skipRequested and saveRequested are never
\* set, and isRunning is cleared only by the process ending; and the main
\* loop starts new iterations again and again for as long as the process lives.
\* a new iteration's first fetch attempt is in flight
IterationStarted == pc = "fetch" /\ phases = <<"Fetching">> /\ attempt = 1

C25_EndsSilently ==
  /\ [][(reading /\ ~reading' /\ ReadEnd) =>
          UNCHANGED <<pc, Flags, isListening, rawMode, spinnerRunning, phases,
                      ev, saves, clears, remaining, currentUpdate>>]_vars
  /\ [][~reading =>
          /\ ~reading'
          /\ isPaused' = isPaused
          /\ skipRequested' => skipRequested
          /\ saveRequested' => saveRequested
          /\ isRunning' # isRunning => pc' = "exited"]_vars

C25_ReadEnd ==
  /\ C25_EndsSilently
  /\ []((~reading /\ ~Ended) => <>(Ended \/ IterationStarted))

\* C25 as it holds: the same, the main loop going on starting new iterations
\* unless the slideshow was paused when the read loop ended; it then stays
\* paused, polling, since no key can resume it.
C25_ReadEndUnlessPaused ==
  /\ C25_EndsSilently
  /\ []((~reading /\ ~isPaused /\ ~Ended) =>
         <>(Ended \/ IterationStarted))

\* C25 witness: the read loop has ended without destroy(), the slideshow is
\* not paused and its progress bar is running
C25_Witness ==
  /\ rawMode /\ isListening /\ ~reading
  /\ isRunning /\ ~isPaused /\ pc = "barTick" /\ ticks > 0

\* C26: a saveImage call whose computed path already holds a file leaves
\* every file as it was; so the explicit save of a slide whose default save
\* left a file at its path changes nothing.
C26_PathHeldUntouched ==
  [][(saves' = saves + 1 /\ savePath' \in Paths(storage)) =>
       storage' = storage]_vars

C26_SaveTwice ==
  /\ C26_PathHeldUntouched
  /\ [][(saves = 1 /\ saves' = 2 /\ savePath \in Paths(storage)) =>
          storage' = storage]_vars

\* C26 as it holds: the same, for a slide whose URL ends in a file name; a
\* slide whose URL ends in "/" is named after the clock at each call.
C26_SaveTwiceNamed ==
  /\ C26_PathHeldUntouched
  /\ [][(saves = 1 /\ saves' = 2 /\ savePath \in Paths(storage)
          /\ SlideTable[currentSlideImage].tail # <<>>) =>
          storage' = storage]_vars

\* C26 witness: slide 3 was saved twice and its one file, named a.jpg with
\* the query cut off, sits in the NSFW directory
C26_Witness ==
  /\ currentSlideImage = 3 /\ saves = 2
  /\ savePath = <<"waifus/NSFW", <<"a", ".", "jpg">>>>
  /\ [path |-> savePath, bytes |-> 3] \in storage
  /\ Cardinality(storage) = 1

\* C27: a step that starts an iteration leaves skipRequested and
\* saveRequested false; a step that takes either flag from true to false
\* starts an iteration; and a step that takes skipRequested (saveRequested)
\* from false to true is the dispatch of a skip (save) key.
\* (a step without effects leaves ev as it was; a fetch that ends always
\* has effects, and may repeat those of the step before it)
IterationStep ==
  HasIn(ev', "iteration") /\ (ev' # ev \/ pc = "fetch") /\ MainStep

C27_FlagsResetAtIterationStart ==
  /\ [][IterationStep => ~skipRequested' /\ ~saveRequested']_vars
  /\ [][((skipRequested /\ ~skipRequested')
           \/ (saveRequested /\ ~saveRequested')) =>
          IterationStep /\ phases'[1] = "Fetching"]_vars
  /\ [][(~skipRequested /\ skipRequested') =>
          /\ saveRequested' = saveRequested
          /\ \E b \in SkipChunks : KeyPressOf(b)]_vars
  /\ [][(~saveRequested /\ saveRequested') =>
          /\ skipRequested' = skipRequested
          /\ \E b \in SaveChunks : KeyPressOf(b)]_vars

\* C27 witness: a new iteration's fetch is in flight, both flags false, the
\* iteration before it having shown a slide and saved it on request
C27_Witness ==
  /\ pc = "fetch" /\ phases = <<"Fetching">>
  /\ ~skipRequested /\ ~saveRequested
  /\ \E i \in DOMAIN ev : ev[i].op \in {"save.return", "save.fail"}
  /\ Has("iteration")

\* C28: while the download is in flight the spinner shows the downloading
\* message, and while the image is rendered it has shown the converting
\* message last.
C28_SpinnerMessages ==
  /\ [](pc = "download" => spinnerRunning /\ spinnerMsg = DownloadingMsg)
  /\ [](pc = "display" => spinnerMsg = ConvertingMsg)

\* C29: a step that calls start on a running spinner (entering Downloading)
\* leaves it running with its one timer and its frame index as they were; a
\* step that calls stop on a stopped spinner (a quit during Waiting) leaves
\* flag, timer and frame index as they were and erases no line; and at all
\* times at most one timer is live, exactly when the spinner is running.
C29_SpinnerIdempotent ==
  /\ [](/\ timers \in {0, 1}
        /\ spinnerRunning <=> timers = 1
        /\ spinnerRunning <=> intervalId # Null)
  /\ [][(pc = "fetch" /\ pc' = "download" /\ spinnerRunning) =>
          /\ Entered("Downloading")
          /\ spinnerRunning' /\ timers' = 1 /\ intervalId' = intervalId
          /\ currentFrame' = currentFrame
          /\ ~HasIn(ev', "spinner.start")]_vars
  /\ [][(~spinnerRunning /\ pc' = "exited" /\ pc # "exited") =>
          /\ HasIn(ev', "clear")
          /\ ~spinnerRunning' /\ timers' = 0 /\ intervalId' = Null
          /\ currentFrame' = currentFrame
          /\ ~HasIn(ev', "spinner.stop")]_vars

\* C29 witness: the download is in flight, the spinner started in Fetching
\* is three frames on
C29_Witness ==
  /\ pc = "download" /\ spinnerRunning /\ timers = 1 /\ currentFrame = 3
  /\ spinnerMsg = FetchingMsg

\* C30: at most one of spinner, image and bar is on the screen, and a step
\* that puts one of them on a screen showing another has cleared in between.
C30_OneRenderVisible ==
  /\ [](Cardinality(screen) <= 1)
  /\ [][\A x \in screen' \ screen :
          (screen # {} /\ screen # {x}) =>
            HasIn(ev', "clear") \/ HasIn(ev', "spinner.stop")]_vars
\* C31: the spinner runs only while a fetch attempt, a backoff or a download
\* is in flight, the phase being Fetching or Downloading; it is stopped while
\* the renderer runs, in Displaying and Waiting, during every 3 s or 5 s
\* wait, and once run() has returned or the process has exited.
LoadingPcs == {"fetch", "backoff", "download"}

C31_SpinnerOnlyWhileLoading ==
  /\ [](spinnerRunning =>
          /\ pc \in LoadingPcs
          /\ Last(phases) \in {"Fetching", "Downloading"})
  /\ [](pc \in {"display", "save1", "save2", "sleep", "returned", "exited"}
            \cup WaitingPcs => ~spinnerRunning /\ timers = 0)

\* C31 witness: the 5 s wait after a failed download, the spinner stopped
C31_Witness ==
  /\ pc = "sleep" /\ remaining = ErrorWaitMs /\ ~spinnerRunning
  /\ Has("download.fail") /\ Has("spinner.stop")

\* C32: every bar drawn carries a counter between 0 and totalUpdates =
\* intervalSeconds * 10, so that on a terminal of any width the filled part
\* is no wider than the bar (and, the bar having room for it, lies within
\* 0..barWidth - 4), whatever pauses, skips and ticks came before.
C32_BarWithinBounds ==
  /\ [](totalUpdates = config.intervalSeconds * 10)
  /\ [](\A i \in DOMAIN ev :
          ev[i].op = "bar.draw" => ev[i].id \in 0..totalUpdates)
  /\ [](pc = "barWrite" =>
          /\ currentUpdate \in 0..totalUpdates
          /\ ev[Len(ev)] = E("bar.draw", currentUpdate)
          /\ \A w \in 0..MaxColumns :
               /\ filledWidth(currentUpdate, w) <= barWidth(w)
               /\ barWidth(w) >= 4 =>
                     filledWidth(currentUpdate, w) \in 0..(barWidth(w) - 4))

\* C32 witness: the full bar is being written after a pause held it
C32_Witness ==
  /\ pc = "barWrite" /\ currentUpdate = totalUpdates /\ held
  /\ filledWidth(currentUpdate, 80) = 44

\* C33: when the save requested with the s key fails, the step goes on as
\* after a save that succeeded: the screen is cleared (unless paused, as at
\* the end of any iteration) and the next iteration starts Fetching at once,
\* with nothing logged and no 5 s wait before it.
C33_ExplicitSaveFailureSwallowed ==
  [][(pc = "save2" /\ HasIn(ev', "save.fail") /\ SaveExplicitDone) =>
       /\ ev'[1] = E("save.fail", currentSlideImage)
       /\ StartsFetching
       /\ isRunning'
       /\ \A i \in 1..IndexOf(ev', "iteration") :
            ev'[i].op \notin {"log.error", "log.warn", "ErrorRecovery", "sleep"}
       /\ IF isPaused
          THEN ~HasIn(ev', "clear")
          ELSE ev'[2] = E("clear", 0) /\ ev'[3] = E("iteration", 0)]_vars

\* C33 witness: the explicit save failed and the next fetch is in flight
C33_Witness ==
  /\ pc = "fetch" /\ Len(ev) >= 3 /\ ~isPaused
  /\ ev[1].op = "save.fail" /\ ev[2].op = "clear" /\ ev[3].op = "iteration"

\* C34: inside the retry loop no step changes a control flag, and with a
\* skip requested the loop does what it does without one: a failed attempt
\* below maxRetries is followed by its full backoff, the backoff by the next
\* attempt, and only the last failure or a success returns; a new iteration
\* starts only in a step in which the loop returns.
C34_RetryLoopIgnoresFlags ==
  /\ [][(InRetryLoop /\ pc' \in {"fetch", "backoff"}
          /\ ~HasIn(ev', "fetch.return") /\ MainStep) =>
          /\ Flags' = Flags
          /\ ~HasIn(ev', "iteration")
          /\ IF pc = "fetch"
             THEN /\ attempt < config.maxRetries
                  /\ ev' = <<E("fetch.fail", attempt),
                             E("backoff", backoffDelay(attempt))>>
                  /\ pc' = "backoff" /\ delay' = backoffDelay(attempt)
                  /\ attempt' = attempt /\ delays' = delays + 1
             ELSE /\ pc' = "fetch" /\ attempt' = attempt + 1
                  /\ delays' = delays]_vars
  /\ [][(InRetryLoop /\ skipRequested /\ pc = "fetch"
          /\ pc' \notin {"backoff", "exited"} /\ FetchDone) =>
          \/ /\ ev'[1].op = "fetch.return" /\ HasIn(ev', "iteration")
             /\ delays = attempt - 1
          \/ /\ ev'[1] = E("fetch.fail", config.maxRetries)
             /\ attempt = config.maxRetries
             /\ delays = config.maxRetries - 1
             /\ pc' = "sleep" /\ remaining' = ErrorWaitMs
             /\ ~HasIn(ev', "iteration")]_vars
  /\ [][(InRetryLoop /\ HasIn(ev', "iteration") /\ ev' # ev) =>
          pc = "fetch" /\ ev'[1].op = "fetch.return" /\ skipRequested]_vars

\* C34 witness: a skip is pending and the seventh attempt is in flight after
\* six backoffs
C34_Witness ==
  /\ pc = "fetch" /\ skipRequested /\ attempt = 7 /\ delays = 6
  /\ config.maxRetries = 7

\* C35: isPaused changes only in the dispatch of the space key, a step that
\* changes nothing else; a fetch or download that ends while paused goes on
\* to the next phase as it does unpaused; and a pause in force when Waiting
\* begins holds the bar at 0 from its first write.
C35_OnlySpaceChangesPause ==
  /\ [][isPaused' # isPaused =>
          /\ KeyPressOf(<<32>>)
          /\ UNCHANGED <<pc, isRunning, skipRequested, saveRequested,
                         spinnerRunning, phases, ev, currentUpdate, remaining,
                         attempt, delay, screen, slideImage, imageBuffer,
                         currentSlideImage, currentImageBuffer>>]_vars
  /\ [][(isPaused /\ ~skipRequested /\ pc = "fetch"
          /\ HasIn(ev', "fetch.return") /\ FetchDone) =>
          pc' = "download" /\ isPaused']_vars
  /\ [][(isPaused /\ ~skipRequested /\ pc = "download"
          /\ HasIn(ev', "download.return") /\ DownloadDone) =>
          pc' = "display" /\ isPaused']_vars
  /\ [][(isPaused /\ ~skipRequested /\ pc = "barWrite" /\ currentUpdate = 0
          /\ BarWriteDone) =>
          pc' = "pauseTick" /\ currentUpdate' = 0 /\ isPaused']_vars

\* C35 witness: a slide was skipped out of its pause loop and the pause is
\* in force while the next slide is being downloaded
C35_Witness ==
  /\ pc = "download" /\ isPaused /\ ~skipRequested
  /\ {"image", "bar"} \subseteq screen

\* C36 as stated: if the slideshow is not paused for ever (it is unpaused
\* again and again), then from every state in which run() has not ended a
\* state follows in which it has ended or the first fetch attempt of a new
\* iteration is in flight.  Refuted: the bar's counter advances only after a
\* bar write that finds the slideshow unpaused, so a pause set during every
\* bar write and released during every poll of the pause loop holds Waiting
\* for ever.
C36_NotPausedForEver ==
  ([]<>~isPaused) => [](~Ended => <>(Ended \/ IterationStarted))

\* C36: if the pause is in the end released for good, then from every state
\* in which run() has not ended a state follows in which it has ended or the
\* first fetch attempt of a new iteration is in flight.
C36_AlwaysProgresses ==
  (<>[]~isPaused) => [](~Ended => <>(Ended \/ IterationStarted))

\* C36 witness: a paused slideshow in its pause loop during Waiting, from
\* which progress needs the pause to end or a skip
C36_Witness ==
  /\ pc = "pauseTick" /\ isPaused /\ ~skipRequested /\ isRunning
  /\ currentUpdate > 0

\* the awaits before the end of Waiting, and the error waits
AbandonPcs == {"fetch", "backoff", "download", "display", "save1", "sleep"}

\* C37: with a save requested, a step that abandons the iteration before the
\* end of Waiting (it goes to an error wait or straight to the next iteration)
\* and every step of an error wait makes no persistence call, and the step
\* that starts the next iteration leaves the request cleared; an explicit
\* persistence call is made only by the step that ends Waiting; before the
\* default save no persistence call was made in the iteration, and in an
\* error wait at most the default one.
C37_AbandonedSaveDiscarded ==
  /\ [][(saveRequested /\ pc \in AbandonPcs /\ MainStep
          /\ (pc' = "sleep" \/ IterationStep)) =>
          /\ \A i \in DOMAIN ev' : ev'[i].op \notin SaveOps
          /\ pc' # "save2"
          /\ IterationStep => ~saveRequested']_vars
  /\ [][(MainStep /\ HasIn(ev', "save.explicit")) =>
          /\ HasIn(ev', "wait.end") /\ Last(phases') = "Waiting"
          /\ pc \notin {"fetch", "backoff", "download", "sleep"}
          /\ saveRequested']_vars
  /\ [](pc \in {"fetch", "backoff", "download", "display"} => saves = 0)
  /\ [](pc = "sleep" =>
          \/ saves = 0
          \/ saves = 1 /\ ~config.noSave /\ Last(phases) = "ErrorRecovery"
             /\ phases[Len(phases) - 1] = "Displaying")

\* C37 witness: a download in flight with both a skip and a save requested,
\* while the slide shown before is still held as the current one
C37_Witness ==
  /\ pc = "download" /\ saveRequested /\ skipRequested /\ isRunning
  /\ currentSlideImage # Null /\ currentImageBuffer # Null

\* C38: the step that makes an explicit persistence call passes the descriptor
\* fetched in this iteration, and while the call is pending the current
\* descriptor and bytes are the ones this iteration fetched and downloaded,
\* the bytes are those of that descriptor, and the iteration has been through
\* Downloading, Converting, Displaying and Waiting.
C38_ExplicitSaveOfThisSlide ==
  /\ [][(MainStep /\ HasIn(ev', "save.explicit")) =>
          /\ Last(ev') = E("save.explicit", slideImage')
          /\ slideImage' = slideImage /\ imageBuffer' = imageBuffer]_vars
  /\ [](pc = "save2" =>
          /\ slideImage # Null /\ imageBuffer = slideImage
          /\ currentSlideImage = slideImage
          /\ currentImageBuffer = imageBuffer
          /\ phases = <<"Fetching", "Downloading", "Converting",
                        "Displaying", "Waiting">>)

\* C38 witness: the explicit save of a slide is pending after a skip ended
\* the Waiting of a paused slideshow
C38_Witness ==
  /\ pc = "save2" /\ Last(ev) = E("save.explicit", slideImage)
  /\ skipRequested /\ isPaused /\ saveRequested /\ currentUpdate > 0

\* C39: a skip key dispatched during an error wait sets the flag and leaves
\* the wait as it was; with the flag set, a chunk of the wait that ends
\* takes one second off what remains and the wait goes on while anything
\* remains; and the step that ends the wait starts the next iteration with
\* the flag cleared, in exactly the state the same step gives when no skip
\* is pending.
C39_SkipDuringErrorWait ==
  /\ [][\A b \in SkipChunks : (pc = "sleep" /\ KeyPressOf(b)) =>
          /\ skipRequested' /\ pc' = "sleep" /\ remaining' = remaining
          /\ UNCHANGED <<isPaused, saveRequested, isRunning, phases,
                         spinnerRunning, screen>>]_vars
  /\ [][(pc = "sleep" /\ skipRequested /\ MainStep) =>
          IF remaining > SleepChunk
          THEN /\ pc' = "sleep" /\ remaining' = remaining - SleepChunk
               /\ skipRequested' /\ phases' = phases
          ELSE /\ ev'[1] = E("iteration", 0) /\ ~skipRequested'
               /\ phases'[1] = "Fetching"
               /\ \E r \in RandomDraws :
                    Commit(LoopTop([Cur EXCEPT !.skipRequested = FALSE,
                                               !.remaining = 0], r))]_vars
  /\ [](pc = "sleep" => remaining \in
          {k * SleepChunk : k \in 1..(ErrorWaitMs \div SleepChunk)})

\* C39 witness: the last second of the 3-second wait after a render failure
\* is pending and a skip is requested
C39_Witness ==
  /\ pc = "sleep" /\ skipRequested /\ remaining = SleepChunk /\ isRunning
  /\ phases = <<"Fetching", "Downloading", "Converting", "ErrorRecovery">>

\* what an iteration emits when it calls a collaborator or shows a slide
SlideOps == {"fetch.call", "download.call", "render.call", "save.default",
             "save.explicit", "image", "caption", "Downloading", "Converting",
             "Displaying", "Waiting", "bar.draw"}

\* C40: with a source that is no registered name, not "random" and not
\* path-like, the main loop is only ever in mkdir, in the error wait or
\* ended; no step calls fetch, download, render or persistence or enters a
\* phase after Fetching, nothing is ever held as the current slide and no
\* image or bar is on the screen; the wait can always take its next step,
\* which takes one second off a longer wait and otherwise starts an
\* iteration that enters Fetching and goes into a new 5-second wait; and
\* the loop ends only by a quit key or a signal.
C40_UnknownSourceNeverFetches ==
  /\ [](UnknownSource =>
          /\ pc \in {"mkdir", "sleep", "returned", "exited"}
          /\ currentSlideImage = Null /\ currentImageBuffer = Null
          /\ slideImage = Null /\ imageBuffer = Null
          /\ fetcher = NoFetcher /\ attempt = 0 /\ saves = 0
          /\ screen \cap {"image", "bar"} = {}
          /\ Range(phases) \subseteq {"Fetching", "ErrorRecovery", "Stopped"}
          /\ \A i \in DOMAIN ev : ev[i].op \notin SlideOps
          /\ config.noSave)
  /\ [](UnknownSource /\ pc = "sleep" =>
          /\ isRunning /\ remaining \in 1..ErrorWaitMs
          /\ phases = <<"Fetching", "ErrorRecovery">>
          /\ ENABLED SleepWake)
  /\ [][(UnknownSource /\ pc = "sleep" /\ MainStep) =>
          IF remaining > SleepChunk
          THEN pc' = "sleep" /\ remaining' = remaining - SleepChunk
          ELSE /\ ev'[1] = E("iteration", 0) /\ ev'[2] = E("Fetching", 0)
               /\ HasIn(ev', "log.error")
               /\ pc' = "sleep" /\ remaining' = ErrorWaitMs]_vars
  /\ [][(UnknownSource /\ pc = "sleep" /\ pc' # "sleep") =>
          pc' = "exited" /\ ev'[1].op \in {"quit", "sigint"}]_vars

\* C40 witness: for the source name foo an iteration has entered Fetching
\* and its 5-second wait has just begun
C40_Witness ==
  /\ UnknownSource /\ config.source = <<"f", "o", "o">>
  /\ pc = "sleep" /\ remaining = ErrorWaitMs
  /\ ev[1] = E("iteration", 0) /\ Last(ev) = E("sleep", ErrorWaitMs)

====
